---- MODULE Spec2Model ----
(***************************************************************************)
(* Verification model of MoneyPrinterV2: the flat-file JSON cache          *)
(* (src/cache.py and the content-record appends of the YouTube and Twitter *)
(* classes), the publish step and the text-generation pipeline of          *)
(* src/classes/YouTube.py and "src/classes/YouTube - Generic.py".          *)
(***************************************************************************)
EXTENDS Integers, Sequences, FiniteSets, TLC

(***************************************************************************)
(* Bounds of the model.                                                    *)
(***************************************************************************)
\* number of concurrently running sessions (processes), one cache operation each
NumProcs == 2

Procs == 1..NumProcs

(***************************************************************************)
(* The cache file.  A document {"accounts": [...]} is written as a run of  *)
(* cells: an opening brace, per account one "acct" cell followed by one    *)
(* "item" cell per content record, and a closing brace.  The file is the   *)
(* sequence of cells on disk, so that a truncated file, an overwrite that  *)
(* leaves a tail of the older text, and two documents written one after    *)
(* the other are all distinguishable from a well-formed document.          *)
(***************************************************************************)
VARIABLES
    file,        \* cells of the platform's cache file on disk
    lockHolder,  \* process holding flock(LOCK_EX) on the file, 0 when free
    pc,          \* per process: position inside its operation
    op,          \* per process: the operation it runs
    data,        \* per process: the document it has read and updated in memory
    buf,         \* per process: text still in its file object's write buffer
    arg,         \* per process: the operation's arguments
    outcome      \* per process: "none", "ok" (returned) or "raised"

cacheVars == <<file, lockHolder, pc, op, data, buf, arg, outcome>>
procVars == <<lockHolder, pc, op, data, buf, arg, outcome>>

(***************************************************************************)
(* One session's publish step (YouTube.upload_video).                      *)
(***************************************************************************)
VARIABLES
    variant,     \* "api": the class of YouTube.py; "generic": YouTube - Generic.py
    upPc,        \* position inside upload_video
    video_id,    \* the video ID the upload returned, 0 while there is none
    returned,    \* what upload_video returned: "none", "True", "False", "raised"
    failedAt,    \* the step at which the call failed, "none" when none did
    fileAtCall,  \* the cache file when upload_video was called
    calls        \* number of upload_video calls made by the session

pubVars == <<variant, upPc, video_id, returned, failedAt, fileAtCall, calls>>

(***************************************************************************)
(* One call of a generation stage (generate_topic, generate_script,        *)
(* generate_metadata, generate_prompts, generate_image) and the            *)
(* generate_response calls it makes.                                       *)
(***************************************************************************)
VARIABLES
    stage,        \* the stage function running: "idle", "topic", "script", ...
    stagePc,      \* position inside the stage function
    retry_count,  \* the stage's own loop counter (retry_count / attempt)
    rounds,       \* external rounds the stage call has started so far
    grPc,         \* generate_response: "off", "loop" or "returned"
    grRetry,      \* generate_response's retry_count
    requests,     \* HTTP requests made by the running generate_response call
    resp,         \* the last response generate_response received
    completion,   \* what generate_response returned: NoneValue or a text
    title,        \* generate_metadata's title: origin ("response"/"fallback")
    stored,       \* origin of what the stage stored on the session, or "none"
    stageReturn,  \* "none" while running; "None", "value" or "raised"
    gotNone       \* the last generate_response call of the stage returned None

genVars == <<stage, stagePc, retry_count, rounds, grPc, grRetry, requests,
             resp, completion, title, stored, stageReturn, gotNone>>

(***************************************************************************)
(* One session's generate_video calls.                                     *)
(***************************************************************************)
VARIABLES
    gvPc,         \* the stage generate_video is at, "idle" or "returned"
    started,      \* the stages this call has started, in order
    failed,       \* the first stage of this call that failed, or "none"
    images,       \* self.images: the call that produced each stored path
    video_path,   \* self.video_path: the call that set it, 0 for None
    gvReturn,     \* what generate_video returned: "none", "None" or "path"
    gvCalls       \* number of generate_video calls made on the object

pipeVars == <<gvPc, started, failed, images, video_path, gvReturn, gvCalls>>

(***************************************************************************)
(* Inputs and results of single function calls (content extraction, prompt *)
(* post-processing, script validation, clip timing).                       *)
(***************************************************************************)
VARIABLES
    raw_response, \* extract_content_from_response: the response it is given
    extracted,    \* what extract_content_from_response returned, or Unset
    candidates,   \* generate_prompts: image_prompts when the loop is over
    script_parts, \* generate_prompts: len(self.script.split('.'))
    image_prompts, \* what generate_prompts returned, Raised or NotCalled
    script,       \* validate_script: the script, as its lines
    relaxed_ok,   \* what validate_script of YouTube.py returned, or "unset"
    strict_ok     \* what validate_script of YouTube - Generic.py returned

fnVars == <<raw_response, extracted, candidates, script_parts, image_prompts,
            script, relaxed_ok, strict_ok>>

(***************************************************************************)
(* The image stage and combine of the generate_video calls of one session. *)
(***************************************************************************)
VARIABLES
    asmPc,          \* "menu", "images", "tts", "combine", "clips", "finish", "returned"
    asmCalls,       \* generate_video calls made on the session object
    disk,           \* the image files under .mp that exist and exceed 1000 bytes
    succeeded,      \* this call: the prompts generate_image returned a path for
    session_images, \* self.images
    max_duration,   \* combine: tts_clip.duration in seconds, 0 before it is read
    valid_images,   \* combine: valid_images
    base_duration,  \* combine: base_duration as a fraction of seconds
    clips,          \* combine: the durations of the clips appended to clips
    music,          \* combine: "unset", "mixed" or "without"
    subtitles,      \* combine: "unset", "burned" or "without"
    asmError,       \* the error that ended the call, "none" otherwise
    asmReturn,      \* what generate_video returned: "none", "None" or "path"
    video_written,  \* write_videofile has written the output file of this call
    combine_entered \* this call has entered combine

asmVars == <<asmPc, asmCalls, disk, succeeded, session_images, max_duration,
             valid_images, base_duration, clips, music, subtitles, asmError,
             asmReturn, video_written, combine_entered>>

(***************************************************************************)
(* One process calling add_account and then get_accounts.                  *)
(***************************************************************************)
VARIABLES
    provider,     \* the provider argument of both calls
    record,       \* the account argument of add_account
    prior,        \* the provider's cache file before add_account
    rtPc,         \* "idle", "start", "added" or "listed"
    listed        \* what get_accounts returned

rtVars == <<provider, record, prior, rtPc, listed>>

(***************************************************************************)
(* A run of add_account and remove_account calls on one cache file.        *)
(***************************************************************************)
VARIABLES
    ops           \* the number of add_account / remove_account calls made

acctVars == <<ops>>

(***************************************************************************)
(* The content records of the session's account across add_video and       *)
(* sync_video_history calls of one process.                                *)
(***************************************************************************)
VARIABLES
    prev_items,   \* the account's content records before the last call
    last_op       \* the last call made, "none" before the first

contVars == <<prev_items, last_op>>

(***************************************************************************)
(* _atomic_read_json and _atomic_update_json applied to one cache file.    *)
(***************************************************************************)
VARIABLES
    present,       \* os.path.exists(file_path)
    read_result,   \* what _atomic_read_json did: returned a value or raised
    update_result  \* what _atomic_update_json did: returned or raised

jsonVars == <<present, read_result, update_result>>

(***************************************************************************)
(* One RateLimiter object shared by threads (rate_limiter.py).             *)
(***************************************************************************)
VARIABLES
    clock,      \* time.time(), in whole seconds
    key_calls,  \* self.calls: key -> list of admission times still kept
    lock,       \* self.lock: 0 when free, else the thread holding it
    tpc,        \* where each thread stands
    tkey,       \* the key each thread asks for
    tmode,      \* "call" (__call__), "wait" or "wait_timeout" (wait_for_token)
    tstart,     \* wait_for_token's start_time
    twake,      \* the time a sleeping thread's time.sleep ends
    tresult,    \* what the thread's last call returned
    admitted,   \* every admission time of each key, in order of admission
    starts      \* calls begun so far

limVars == <<clock, key_calls, lock, tpc, tkey, tmode, tstart, twake, tresult,
             admitted, starts>>

(***************************************************************************)
(* One call of a function wrapped by retry_on_failure (error_handlers.py). *)
(***************************************************************************)
VARIABLES
    max_attempts,   \* the decorator's max_attempts
    behaviour,      \* what the wrapped function does at its i-th invocation
    attempt,        \* the loop variable of wrapper
    invocations,    \* how often the wrapped function has been invoked
    current_delay,  \* wrapper's current_delay
    slept,          \* the arguments of time.sleep, in order
    retry_result    \* how wrapper ended

retryVars == <<max_attempts, behaviour, attempt, invocations, current_delay,
               slept, retry_result>>

(***************************************************************************)
(* One LLMCache object and its cache directory (llm_cache.py).             *)
(***************************************************************************)
VARIABLES
    llm_now,      \* datetime.now(), in whole seconds
    default_ttl,  \* self.default_ttl: [some |-> FALSE] stands for None
    entries,      \* the cache files, by cache key
    pinned,       \* per key: the response last stored with ttl=None and
                  \* neither deleted, cleared nor overwritten since
    last_get      \* the last get: its key, its result, and pinned[key] then

llmVars == <<llm_now, default_ttl, entries, pinned, last_get>>

(***************************************************************************)
(* One call of YouTube._resumable_upload.                                  *)
(***************************************************************************)
VARIABLES
    upload_error,   \* the local variable error: "None" or "message"
    upload_retry,   \* the local variable retry
    chunks,         \* calls of insert_request.next_chunk() so far
    last_chunk,     \* what the last next_chunk() call did
    max_sleeps,     \* max_sleep of each time.sleep, in order
    upload_result   \* how _resumable_upload ended

uploadVars == <<upload_error, upload_retry, chunks, last_chunk, max_sleeps,
                upload_result>>

(***************************************************************************)
(* One turn of generate_script's loop: clean_script, then validate_script  *)
(* on the cleaned text.                                                    *)
(***************************************************************************)
VARIABLES
    raw_lines,       \* the backend's text, as its lines
    cleaned_script,  \* what clean_script returned, as its lines
    checked,         \* the sentence list validate_script built and checked
    self_script      \* self.script, once validate_script has accepted

cleanVars == <<raw_lines, cleaned_script, checked, self_script>>

lateVars == <<acctVars, contVars, jsonVars, limVars, retryVars, llmVars, uploadVars, cleanVars>>


LBrace == [k |-> "{", v |-> 0, d |-> 0]
RBrace == [k |-> "}", v |-> 0, d |-> 0]
AcctCell(id) == [k |-> "acct", v |-> id, d |-> 0]
ItemCell(it) == [k |-> "item", v |-> it.url, d |-> it.date]

Account(id, items) == [id |-> id, items |-> items]
Item(url, date) == [url |-> url, date |-> date]

RECURSIVE ItemCells(_)
ItemCells(items) ==
    IF items = <<>> THEN <<>>
    ELSE <<ItemCell(Head(items))>> \o ItemCells(Tail(items))

RECURSIVE AccountCells(_)
AccountCells(accounts) ==
    IF accounts = <<>> THEN <<>>
    ELSE <<AcctCell(Head(accounts).id)>> \o ItemCells(Head(accounts).items)
             \o AccountCells(Tail(accounts))

\* json.dumps / json.dump of {"accounts": accounts}
dumps(accounts) == <<LBrace>> \o AccountCells(accounts) \o <<RBrace>>

\* the accounts of a run of "acct" and "item" cells, the first of which is "acct"
RECURSIVE CellsToAccounts(_, _)
CellsToAccounts(cells, acc) ==
    IF cells = <<>> THEN acc
    ELSE LET c == Head(cells) IN
         IF c.k = "acct"
         THEN CellsToAccounts(Tail(cells), Append(acc, Account(c.v, <<>>)))
         ELSE LET n == Len(acc) IN
              CellsToAccounts(Tail(cells),
                  [acc EXCEPT ![n].items = Append(@, Item(c.v, c.d))])

\* json.loads succeeds: one document and nothing else
WellFormed(cells) ==
    /\ Len(cells) >= 2
    /\ cells[1] = LBrace
    /\ cells[Len(cells)] = RBrace
    /\ \A i \in 2..(Len(cells) - 1) : cells[i].k \in {"acct", "item"}
    /\ Len(cells) > 2 => cells[2].k = "acct"

\* json.loads of a well-formed text
loads(cells) == CellsToAccounts(SubSeq(cells, 2, Len(cells) - 1), <<>>)


\* an update that puts the new account in front of the stored ones
prepend_account(accounts, account) == <<account>> \o accounts

(***************************************************************************)
(* The update functions handed to the read-modify-write cycles.            *)
(***************************************************************************)
\* add_account's update_fn: accounts.append(account)
add_account_update_fn(accounts, account) == Append(accounts, account)

\* remove_account's update_fn: keep the accounts with another id
remove_account_update_fn(accounts, account_id) ==
    SelectSeq(accounts, LAMBDA a : a.id /= account_id)

HasAccount(accounts, id) == \E i \in DOMAIN accounts : accounts[i].id = id

\* add_video / add_post: append to every account whose id is the session's
AppendContent(accounts, id, item) ==
    [i \in DOMAIN accounts |->
        IF accounts[i].id = id
        THEN [accounts[i] EXCEPT !.items = Append(@, item)]
        ELSE accounts[i]]

\* list.sort(key = date, reverse = True): stable, descending by date
RECURSIVE InsertByDate(_, _)
InsertByDate(sorted, it) ==
    IF sorted = <<>> THEN <<it>>
    ELSE IF Head(sorted).date >= it.date
         THEN <<Head(sorted)>> \o InsertByDate(Tail(sorted), it)
         ELSE <<it>> \o sorted

RECURSIVE SortByDateDesc(_)
SortByDateDesc(items) ==
    IF items = <<>> THEN <<>>
    ELSE InsertByDate(SortByDateDesc(SubSeq(items, 1, Len(items) - 1)),
                      items[Len(items)])

Urls(items) == {items[i].url : i \in DOMAIN items}

\* sync_video_history's merge: add the channel's videos whose url is not yet
\* stored (existing_urls is computed once, before the loop), then sort
RECURSIVE AddMissing(_, _, _)
AddMissing(items, videos, existing_urls) ==
    IF videos = <<>> THEN items
    ELSE AddMissing(IF Head(videos).url \in existing_urls
                    THEN items ELSE Append(items, Head(videos)),
                    Tail(videos), existing_urls)

\* index of the first account with the session's id, 0 when there is none
FirstAccount(accounts, id) ==
    IF HasAccount(accounts, id)
    THEN CHOOSE i \in DOMAIN accounts :
            /\ accounts[i].id = id
            /\ \A j \in 1..(i - 1) : accounts[j].id /= id
    ELSE 0

SyncMerge(accounts, id, videos) ==
    LET i == FirstAccount(accounts, id) IN
    IF i = 0 THEN accounts
    ELSE [accounts EXCEPT ![i].items =
            SortByDateDesc(AddMissing(@, videos, Urls(@)))]

\* a write at file offset 0 of a file opened with "w": the text replaces the
\* first cells and whatever lies beyond its end stays
Overwrite(f, cells) == cells \o SubSeq(f, Len(cells) + 1, Len(f))

\* a write through a file opened with "a+": O_APPEND puts it at the end
AppendWrite(f, cells) == f \o cells

(***************************************************************************)
(* Concurrent sessions on one platform's cache file.  Each process runs    *)
(* one operation; a step is one system call on the file (open/truncate,    *)
(* flock, read, write at close).                                           *)
(***************************************************************************)
\* the id of the account the content sessions work on
SessionAccount == 1

\* the document on disk before the sessions start
InitialAccounts == <<Account(SessionAccount, <<Item(0, 1)>>)>>

\* uuid4 of the account process p creates
NewId(p) == SessionAccount + p

\* the content record process p appends (dated now, after the stored ones)
NewItem(p) == Item(10 + p, 2)

\* what the channel's search().list returns to sync_video_history
ChannelVideoLists ==
    { <<Item(0, 1)>>,
      <<Item(20, 3), Item(0, 1)>>,
      <<Item(0, 1), Item(21, 0)>> }

LockedOps == {"add_account", "remove_account"}
AppendOps == {"add_post", "add_video_generic"}

nonCacheVars == <<pubVars, genVars, pipeVars, fnVars, asmVars, rtVars, lateVars>>

CacheInit ==
    /\ file = dumps(InitialAccounts)
    /\ lockHolder = 0
    /\ pc = [p \in Procs |-> "idle"]
    /\ op = [p \in Procs |-> "none"]
    /\ data = [p \in Procs |-> <<>>]
    /\ buf = [p \in Procs |-> <<>>]
    /\ arg = [p \in Procs |-> 0]
    /\ outcome = [p \in Procs |-> "none"]

\* no upload_video call is in progress
PubIdle ==
    /\ upPc = "idle"
    /\ video_id = 0
    /\ returned = "none"
    /\ failedAt = "none"
    /\ fileAtCall = <<>>
    /\ calls = 0

\* Python's None
NoneValue == <<"None">>

\* no stage function is running
GenIdle ==
    /\ stage = "idle"
    /\ stagePc = "idle"
    /\ retry_count = 0
    /\ rounds = 0
    /\ grPc = "off"
    /\ grRetry = 0
    /\ requests = 0
    /\ resp = [status |-> 0, kind |-> "none", text |-> <<>>]
    /\ completion = NoneValue
    /\ title = "none"
    /\ stored = "none"
    /\ stageReturn = "none"
    /\ gotNone = FALSE

Unset == <<"unset">>

\* generate_prompts has not been called
NotCalled == [how |-> "unset", list |-> <<>>]

\* no function call under study has been made
FnIdle ==
    /\ raw_response = [status |-> 0, kind |-> "none", text |-> <<>>]
    /\ extracted = Unset
    /\ candidates = <<>>
    /\ script_parts = 1
    /\ image_prompts = NotCalled
    /\ script = <<>>
    /\ relaxed_ok = "unset"
    /\ strict_ok = "unset"

\* a duration in seconds as the fraction num / den
Frac(n, d) == [num |-> n, den |-> d]

\* the per-call fields of a session that is not inside generate_video
CallFieldsCleared ==
    /\ succeeded = <<>>
    /\ max_duration = 0
    /\ valid_images = <<>>
    /\ base_duration = Frac(0, 1)
    /\ clips = <<>>
    /\ music = "unset"
    /\ subtitles = "unset"
    /\ asmError = "none"
    /\ asmReturn = "none"
    /\ video_written = FALSE
    /\ combine_entered = FALSE

\* a new YouTube object at the menu of run_youtube_operations
AsmIdle ==
    /\ asmPc = "menu"
    /\ asmCalls = 0
    /\ disk = {}
    /\ session_images = <<>>
    /\ CallFieldsCleared

\* no add_account / get_accounts pair is under study
RtIdle ==
    /\ provider = "none"
    /\ record = [id |-> 0, items |-> <<>>]
    /\ prior = <<>>
    /\ rtPc = "idle"
    /\ listed = <<>>

\* no add_account / remove_account run is under study
AcctIdle == ops = 0

\* no add_video / sync_video_history run is under study
ContIdle == prev_items = <<>> /\ last_op = "none"

\* a call that has not been made
NoResult == [how |-> "unset", accounts |-> <<>>]

\* no _atomic_read_json / _atomic_update_json call is under study
JsonIdle ==
    /\ present = TRUE
    /\ read_result = NoResult
    /\ update_result = NoResult

Threads == {1, 2}

Keys == {"a", "b"}

\* a RateLimiter nobody has called
LimIdle ==
    /\ clock = 0
    /\ key_calls = [k \in Keys |-> <<>>]
    /\ lock = 0
    /\ tpc = [t \in Threads |-> "idle"]
    /\ tkey = [t \in Threads |-> "a"]
    /\ tmode = [t \in Threads |-> "call"]
    /\ tstart = [t \in Threads |-> 0]
    /\ twake = [t \in Threads |-> 0]
    /\ tresult = [t \in Threads |-> "none"]
    /\ admitted = [k \in Keys |-> <<>>]
    /\ starts = 0

\* wrapper has not ended
Running == [how |-> "running", exc |-> 0]

\* no wrapped function is being called
RetryIdle ==
    /\ max_attempts = 1
    /\ behaviour = <<>>
    /\ attempt = 1
    /\ invocations = 0
    /\ current_delay = 1
    /\ slept = <<>>
    /\ retry_result = Running

CacheKeys == {"k1", "k2"}

\* None, as a ttl or an expiry time
NoTime == [some |-> FALSE, at |-> 0]

\* no cache file
NoEntry == [present |-> FALSE, response |-> 0, expires_at |-> NoTime]

NotPinned == [on |-> FALSE, response |-> 0]

NoGet == [made |-> FALSE, key |-> "k1", hit |-> FALSE, response |-> 0,
          pinned |-> NotPinned]

\* an LLMCache over an empty directory, never used
LlmIdle ==
    /\ llm_now = 0
    /\ default_ttl = NoTime
    /\ entries = [k \in CacheKeys |-> NoEntry]
    /\ pinned = [k \in CacheKeys |-> NotPinned]
    /\ last_get = NoGet

\* _resumable_upload has not ended
Uploading == [how |-> "running", value |-> "none"]

\* no upload is in progress
UploadIdle ==
    /\ upload_error = "None"
    /\ upload_retry = 0
    /\ chunks = 0
    /\ last_chunk = "none"
    /\ max_sleeps = <<>>
    /\ upload_result = Uploading

\* a list of lines that has not been computed
NoLines == [set |-> FALSE, lines |-> <<>>]

\* generate_script is not running
CleanIdle ==
    /\ raw_lines = <<>>
    /\ cleaned_script = NoLines
    /\ checked = NoLines
    /\ self_script = NoLines

LateIdle ==
    /\ AcctIdle
    /\ ContIdle
    /\ JsonIdle
    /\ LimIdle
    /\ RetryIdle
    /\ LlmIdle
    /\ UploadIdle
    /\ CleanIdle

\* a YouTube object on which generate_video has not been called
PipeIdle ==
    /\ gvPc = "idle"
    /\ started = <<>>
    /\ failed = "none"
    /\ images = <<>>
    /\ video_path = 0
    /\ gvReturn = "none"
    /\ gvCalls = 0

Finish(p, how) ==
    /\ pc' = [pc EXCEPT ![p] = "done"]
    /\ outcome' = [outcome EXCEPT ![p] = how]

\* ---- cache.add_account / cache.remove_account -> _atomic_update_json ----

CallAddAccount(p) ==
    /\ pc[p] = "idle"
    /\ op' = [op EXCEPT ![p] = "add_account"]
    /\ arg' = [arg EXCEPT ![p] = Account(NewId(p), <<>>)]
    /\ pc' = [pc EXCEPT ![p] = "lock"]
    /\ UNCHANGED <<file, lockHolder, data, buf, outcome>>
    /\ UNCHANGED nonCacheVars

CallRemoveAccount(p) ==
    /\ pc[p] = "idle"
    /\ \E id \in {SessionAccount, NewId(p)} :
          arg' = [arg EXCEPT ![p] = id]
    /\ op' = [op EXCEPT ![p] = "remove_account"]
    /\ pc' = [pc EXCEPT ![p] = "lock"]
    /\ UNCHANGED <<file, lockHolder, data, buf, outcome>>
    /\ UNCHANGED nonCacheVars

\* open(file_path, "a+") and FileLock.__enter__: flock(LOCK_EX) blocks while
\* another open file description holds the lock
AcquireLock(p) ==
    /\ pc[p] = "lock"
    /\ lockHolder = 0
    /\ lockHolder' = p
    /\ pc' = [pc EXCEPT ![p] = "read"]
    /\ UNCHANGED <<file, op, data, buf, arg, outcome>>
    /\ UNCHANGED nonCacheVars

\* what update_fn returns for the data read
UpdatedData(p, accounts) ==
    IF op[p] = "add_account"
    THEN add_account_update_fn(accounts, arg[p])
    ELSE remove_account_update_fn(accounts, arg[p])

\* file.seek(0); content = file.read(); json.loads or the default;
\* updated_data = update_fn(data)
LockedRead(p) ==
    /\ pc[p] = "read"
    /\ op[p] \in LockedOps
    /\ LET current == IF WellFormed(file) THEN loads(file) ELSE <<>>
       IN data' = [data EXCEPT ![p] = UpdatedData(p, current)]
    /\ pc' = [pc EXCEPT ![p] = "trunc"]
    /\ UNCHANGED <<file, lockHolder, op, buf, arg, outcome>>
    /\ UNCHANGED nonCacheVars

\* file.seek(0); file.truncate(); json.dump(updated_data, file): truncate
\* reaches the disk, the dumped text (shorter than the 8192-byte buffer of a
\* Python file object) stays in the buffer until the file is flushed
LockedTruncateAndDump(p) ==
    /\ pc[p] = "trunc"
    /\ op[p] \in LockedOps
    /\ file' = <<>>
    /\ buf' = [buf EXCEPT ![p] = dumps(data[p])]
    /\ pc' = [pc EXCEPT ![p] = "unlock"]
    /\ UNCHANGED <<lockHolder, op, data, arg, outcome>>
    /\ UNCHANGED nonCacheVars

\* FileLock.__exit__: flock(LOCK_UN); the inner with block ends first
ReleaseLock(p) ==
    /\ pc[p] = "unlock"
    /\ lockHolder' = 0
    /\ pc' = [pc EXCEPT ![p] = "close"]
    /\ UNCHANGED <<file, op, data, buf, arg, outcome>>
    /\ UNCHANGED nonCacheVars

\* the outer with block ends: file.close() flushes the buffer to the disk
CloseAndFlush(p) ==
    /\ pc[p] = "close"
    /\ file' = AppendWrite(file, buf[p])
    /\ buf' = [buf EXCEPT ![p] = <<>>]
    /\ Finish(p, "ok")
    /\ UNCHANGED <<lockHolder, op, data, arg>>
    /\ UNCHANGED nonCacheVars

\* ---- Twitter.add_post, YouTube.add_video (both class variants) ----

\* YouTube.add_video of YouTube.py: its first statement calls
\* self.get_videos(), a method the class of YouTube.py does not define, so
\* the call raises AttributeError before any file operation
CallAddVideo(p) ==
    /\ pc[p] = "idle"
    /\ op' = [op EXCEPT ![p] = "add_video"]
    /\ arg' = [arg EXCEPT ![p] = [id |-> SessionAccount, item |-> NewItem(p)]]
    /\ Finish(p, "raised")
    /\ UNCHANGED <<file, lockHolder, data, buf>>
    /\ UNCHANGED nonCacheVars

\* Twitter.add_post, and YouTube.add_video of "YouTube - Generic.py"
CallAppendContent(p) ==
    /\ pc[p] = "idle"
    /\ \E o \in AppendOps : op' = [op EXCEPT ![p] = o]
    /\ arg' = [arg EXCEPT ![p] = [id |-> SessionAccount, item |-> NewItem(p)]]
    /\ pc' = [pc EXCEPT ![p] = "get_read"]
    /\ UNCHANGED <<file, lockHolder, data, buf, outcome>>
    /\ UNCHANGED nonCacheVars

\* get_posts / get_videos: open(cache, "r") and json.load, no lock taken.
\* json.load raises on an empty or malformed file; get_posts returns None
\* when no account has the session's id, and posts.append then raises;
\* get_videos returns [] in that case.
GetContentRead(p) ==
    /\ pc[p] = "get_read"
    /\ IF ~WellFormed(file)
       THEN Finish(p, "raised")
       ELSE IF op[p] = "add_post" /\ ~HasAccount(loads(file), arg[p].id)
       THEN Finish(p, "raised")
       ELSE /\ pc' = [pc EXCEPT ![p] = "read"]
            /\ UNCHANGED outcome
    /\ UNCHANGED <<file, lockHolder, op, data, buf, arg>>
    /\ UNCHANGED nonCacheVars

\* with open(cache, "r"): previous_json = json.loads(file.read()); the
\* record is appended in memory to the session's account
AppendRead(p) ==
    /\ pc[p] = "read"
    /\ op[p] \in AppendOps
    /\ IF ~WellFormed(file)
       THEN /\ Finish(p, "raised")
            /\ UNCHANGED data
       ELSE /\ data' = [data EXCEPT ![p] =
                   AppendContent(loads(file), arg[p].id, arg[p].item)]
            /\ pc' = [pc EXCEPT ![p] = "trunc"]
            /\ UNCHANGED outcome
    /\ UNCHANGED <<file, lockHolder, op, buf, arg>>
    /\ UNCHANGED nonCacheVars

\* open(cache, "w"): the file is truncated when it is opened
OpenForWrite(p) ==
    /\ pc[p] = "trunc"
    /\ op[p] \notin LockedOps
    /\ file' = <<>>
    /\ pc' = [pc EXCEPT ![p] = "write"]
    /\ UNCHANGED <<lockHolder, op, data, buf, arg, outcome>>
    /\ UNCHANGED nonCacheVars

\* f.write(json.dumps(previous_json)) / json.dump(cache, file), flushed when
\* the with block closes the file: written at offset 0
WriteAndClose(p) ==
    /\ pc[p] = "write"
    /\ file' = Overwrite(file, dumps(data[p]))
    /\ Finish(p, "ok")
    /\ UNCHANGED <<lockHolder, op, data, buf, arg>>
    /\ UNCHANGED nonCacheVars

\* ---- YouTube.sync_video_history (YouTube.py) ----

CallSyncVideoHistory(p) ==
    /\ pc[p] = "idle"
    /\ op' = [op EXCEPT ![p] = "sync_video_history"]
    /\ \E vs \in ChannelVideoLists :
          arg' = [arg EXCEPT ![p] = [id |-> SessionAccount, videos |-> vs]]
    /\ pc' = [pc EXCEPT ![p] = "read"]
    /\ UNCHANGED <<file, lockHolder, data, buf, outcome>>
    /\ UNCHANGED nonCacheVars

\* with open(cache_path, "r"): cache = json.loads(file.read()); merge and
\* sort in memory.  An exception is caught and the method returns False.
SyncRead(p) ==
    /\ pc[p] = "read"
    /\ op[p] = "sync_video_history"
    /\ IF ~WellFormed(file)
       THEN /\ Finish(p, "raised")
            /\ UNCHANGED data
       ELSE /\ data' = [data EXCEPT ![p] =
                   SyncMerge(loads(file), arg[p].id, arg[p].videos)]
            /\ pc' = [pc EXCEPT ![p] = "trunc"]
            /\ UNCHANGED outcome
    /\ UNCHANGED <<file, lockHolder, op, buf, arg>>
    /\ UNCHANGED nonCacheVars

CacheStep(p) ==
    \/ CallAddAccount(p)
    \/ CallRemoveAccount(p)
    \/ AcquireLock(p)
    \/ LockedRead(p)
    \/ LockedTruncateAndDump(p)
    \/ ReleaseLock(p)
    \/ CloseAndFlush(p)
    \/ CallAddVideo(p)
    \/ CallAppendContent(p)
    \/ GetContentRead(p)
    \/ AppendRead(p)
    \/ OpenForWrite(p)
    \/ WriteAndClose(p)
    \/ CallSyncVideoHistory(p)
    \/ SyncRead(p)

CacheNext == \E p \in Procs : CacheStep(p)

vars == <<cacheVars, pubVars, genVars, pipeVars, fnVars, asmVars, rtVars, lateVars>>

\* the sessions' cache operations alone: no upload_video call is made
SessionsInit ==
    /\ CacheInit
    /\ PubIdle
    /\ GenIdle
    /\ PipeIdle
    /\ FnIdle
    /\ AsmIdle
    /\ RtIdle
    /\ LateIdle
    /\ variant = "api"

SpecCache == SessionsInit /\ [][CacheNext]_vars

(***************************************************************************)
(* Claims about the concurrent cache.                                      *)
(***************************************************************************)
AllDone == \A p \in Procs : pc[p] = "done"

\* the content records of the session's account in a well-formed file
StoredItems(cells) ==
    LET accounts == loads(cells)
        i == FirstAccount(accounts, SessionAccount)
    IN IF i = 0 THEN <<>> ELSE accounts[i].items

Contains(items, it) == \E i \in DOMAIN items : items[i] = it

\* the process has read the file and has not yet written its update back
InCycle(p) == pc[p] \in {"trunc", "unlock", "close", "write"}

\* C1: when the concurrent sessions have all appended a content record to
\* the same account (add_post / add_video returned), the cache file is a
\* well-formed document holding every new record and every record stored
\* before.
C1_ConcurrentAppendsKept ==
    (\A p \in Procs : op[p] \in AppendOps /\ outcome[p] = "ok")
        => /\ WellFormed(file)
           /\ \A p \in Procs : Contains(StoredItems(file), NewItem(p))
           /\ \A i \in DOMAIN InitialAccounts[1].items :
                 Contains(StoredItems(file), InitialAccounts[1].items[i])

\* C2: every read-modify-write cycle holds the exclusive lock from before
\* its read until after its write, so no two cycles overlap.
C2_LockHeldThroughCycle ==
    /\ \A p \in Procs : InCycle(p) => lockHolder = p
    /\ \A p, q \in Procs : (p /= q /\ InCycle(p)) => ~InCycle(q)

\* C3: N concurrent add_account operations leave exactly N new records in
\* the file, none dropped and none duplicated, next to the stored ones.
C3_ExactlyNRecords ==
    (\A p \in Procs : op[p] = "add_account" /\ pc[p] = "done")
        => /\ WellFormed(file)
           /\ Len(loads(file)) = Len(InitialAccounts) + NumProcs
           /\ \A p \in Procs :
                 Cardinality({i \in DOMAIN loads(file) :
                                 loads(file)[i] = Account(NewId(p), <<>>)}) = 1
           /\ SubSeq(loads(file), 1, Len(InitialAccounts)) = InitialAccounts

(***************************************************************************)
(* YouTube.upload_video.  The class of YouTube.py uploads through the API, *)
(* the class of "YouTube - Generic.py" through the browser; the session    *)
(* runs alone here, so add_video's file operations are one step.           *)
(***************************************************************************)
\* number of upload_video calls a session makes
MaxCalls == 3

\* the video IDs an upload can return
VideoIds == {101, 102}

\* build_url(video_id) and the record upload_video hands to add_video
UploadedRecord(id) == Item(id, 2)

\* what upload_video's except clauses return
ExceptReturnsTrue == "True"
ExceptResult == "False"

PubInit ==
    /\ CacheInit
    /\ PubIdle
    /\ GenIdle
    /\ PipeIdle
    /\ FnIdle
    /\ AsmIdle
    /\ RtIdle
    /\ LateIdle
    /\ variant \in {"api", "generic"}

\* the call returns False at `step`
Fail(step) ==
    /\ upPc' = "returned"
    /\ returned' = ExceptResult
    /\ failedAt' = step

Goto(step) ==
    /\ upPc' = step
    /\ UNCHANGED <<returned, failedAt>>

\* main.run_youtube_operations: youtube.upload_video()
UploadVideoCall ==
    /\ upPc \in {"idle", "returned"}
    /\ calls < MaxCalls
    /\ calls' = calls + 1
    /\ upPc' = "start"
    /\ video_id' = 0
    /\ returned' = "none"
    /\ failedAt' = "none"
    /\ fileAtCall' = file
    /\ UNCHANGED <<file, variant, procVars, genVars,
                   pipeVars, fnVars, asmVars, rtVars, lateVars>>

\* YouTube.py: os.path.exists(self.video_path) (a TypeError when video_path
\* is None, caught below), then the using_api test
ApiCheckFile ==
    /\ variant = "api"
    /\ upPc = "start"
    /\ \E path_state \in {"None", "missing", "present"}, using_api \in BOOLEAN :
          IF path_state /= "present" THEN Fail("exists")
          ELSE IF ~using_api THEN Fail("mode")
          ELSE Goto("auth")
    /\ UNCHANGED <<file, variant, video_id, fileAtCall, calls, procVars, genVars,
                   pipeVars, fnVars, asmVars, rtVars, lateVars>>

\* YouTube.py: self._get_authenticated_service()
ApiAuthenticate ==
    /\ variant = "api"
    /\ upPc = "auth"
    /\ \E ok \in BOOLEAN : IF ok THEN Goto("insert") ELSE Fail("auth")
    /\ UNCHANGED <<file, variant, video_id, fileAtCall, calls, procVars, genVars,
                   pipeVars, fnVars, asmVars, rtVars, lateVars>>

\* YouTube.py: the request body from self.metadata (a KeyError when the
\* metadata has no title) and youtube.videos().insert(...)
ApiBuildRequest ==
    /\ variant = "api"
    /\ upPc = "insert"
    /\ \E ok \in BOOLEAN : IF ok THEN Goto("upload") ELSE Fail("insert")
    /\ UNCHANGED <<file, variant, video_id, fileAtCall, calls, procVars, genVars,
                   pipeVars, fnVars, asmVars, rtVars, lateVars>>

\* YouTube.py: video_id = self._resumable_upload(insert_request), which
\* returns an ID, returns a falsy value, or raises; `if not video_id`
ApiResumableUpload ==
    /\ variant = "api"
    /\ upPc = "upload"
    /\ \/ \E id \in VideoIds : video_id' = id /\ Goto("add_video")
       \/ video_id' = 0 /\ Fail("no_id")
       \/ video_id' = 0 /\ Fail("upload")
    /\ UNCHANGED <<file, variant, fileAtCall, calls, procVars, genVars,
                   pipeVars, fnVars, asmVars, rtVars, lateVars>>

\* Generic: get_channel_id and the upload form driven through the browser
GenericBrowserFlow ==
    /\ variant = "generic"
    /\ upPc = "start"
    /\ \E ok \in BOOLEAN : IF ok THEN Goto("find_id") ELSE Fail("upload")
    /\ UNCHANGED <<file, variant, video_id, fileAtCall, calls, procVars, genVars,
                   pipeVars, fnVars, asmVars, rtVars, lateVars>>

\* Generic: the first row of the channel's video list gives the video ID
\* (videos[0] raises when the list is empty)
GenericGetVideoId ==
    /\ variant = "generic"
    /\ upPc = "find_id"
    /\ \/ \E id \in VideoIds : video_id' = id /\ Goto("add_video")
       \/ video_id' = 0 /\ Fail("no_id")
    /\ UNCHANGED <<file, variant, fileAtCall, calls, procVars, genVars,
                   pipeVars, fnVars, asmVars, rtVars, lateVars>>

\* self.add_video({... "url": url ...}).  YouTube.py: add_video calls the
\* undefined self.get_videos(), the AttributeError is caught by upload_video.
\* Generic: get_videos reads, add_video reads, appends and rewrites.
UploadAddVideo ==
    /\ upPc = "add_video"
    /\ IF variant = "api" \/ ~WellFormed(file)
       THEN /\ Fail("add_video")
            /\ UNCHANGED file
       ELSE /\ file' = Overwrite(<<>>,
                 dumps(AppendContent(loads(file), SessionAccount,
                                     UploadedRecord(video_id))))
            /\ Goto("finish")
    /\ UNCHANGED <<variant, video_id, fileAtCall, calls, procVars, genVars,
                   pipeVars, fnVars, asmVars, rtVars, lateVars>>

\* YouTube.py: export_metadata(), sync_video_history() (which catches its own
\* exceptions and rewrites the file when it succeeds) and return True.
\* Generic: driver.quit() (the Firefox driver's quit swallows its errors)
\* and return True.
UploadFinish ==
    /\ upPc = "finish"
    /\ upPc' = "returned"
    /\ returned' = "True"
    /\ IF variant = "api"
       THEN \/ UNCHANGED file
            \/ \E vs \in ChannelVideoLists :
                  file' = Overwrite(<<>>,
                      dumps(SyncMerge(loads(file), SessionAccount, vs)))
       ELSE UNCHANGED file
    /\ UNCHANGED <<variant, video_id, failedAt, fileAtCall, calls, procVars, genVars,
                   pipeVars, fnVars, asmVars, rtVars, lateVars>>

PubNext ==
    \/ UploadVideoCall
    \/ ApiCheckFile
    \/ ApiAuthenticate
    \/ ApiBuildRequest
    \/ ApiResumableUpload
    \/ GenericBrowserFlow
    \/ GenericGetVideoId
    \/ UploadAddVideo
    \/ UploadFinish

SpecPublish == PubInit /\ [][PubNext]_vars

\* the steps before the record is handed to the cache
EarlierSteps == {"exists", "mode", "auth", "insert", "upload", "no_id"}

\* C4: whenever the upload returned a video ID, upload_video has appended a
\* record with that video's URL to the account's list and returned True.
C4_PublishAppendsRecord ==
    (upPc = "returned" /\ video_id /= 0)
        => /\ returned = "True"
           /\ Contains(StoredItems(file), UploadedRecord(video_id))

\* C5: the cache file changes during upload_video only after the upload
\* gave a video ID, and a call that failed at an earlier step returned False
\* and left the file as it was when the call began.
C5_RecordOnlyAfterPublish ==
    /\ (upPc /= "idle" /\ file /= fileAtCall) => video_id /= 0
    /\ (upPc = "returned" /\ failedAt \in EarlierSteps)
          => (returned = "False" /\ file = fileAtCall)

\* a call failed at an earlier step after an earlier call had appended
C5_Witness ==
    /\ upPc = "returned"
    /\ failedAt \in EarlierSteps
    /\ calls = MaxCalls
    /\ file /= dumps(InitialAccounts)
    /\ file = fileAtCall

(***************************************************************************)
(* Text.  A string is the sequence of its characters; "u2026" stands for   *)
(* the one-character horizontal ellipsis U+2026.                           *)
(***************************************************************************)
IsSpace(c) == c \in {" ", "\n", "\t"}

RECURSIVE lstrip(_)
lstrip(s) == IF s /= <<>> /\ IsSpace(Head(s)) THEN lstrip(Tail(s)) ELSE s

RECURSIVE rstrip(_)
rstrip(s) ==
    IF s /= <<>> /\ IsSpace(s[Len(s)]) THEN rstrip(SubSeq(s, 1, Len(s) - 1))
    ELSE s

\* str.strip()
strip(s) == lstrip(rstrip(s))

\* str.endswith / str.startswith
endswith(s, suffix) ==
    /\ Len(suffix) <= Len(s)
    /\ SubSeq(s, Len(s) - Len(suffix) + 1, Len(s)) = suffix

startswith(s, prefix) ==
    /\ Len(prefix) <= Len(s)
    /\ SubSeq(s, 1, Len(prefix)) = prefix

Dots3 == <<".", ".", ".">>
Dots2 == <<".", ".">>
Ellipsis == <<"u2026">>

\* re.sub(r'\.{3,}.*$', '', s): the leftmost run of three dots after which no
\* line break follows (other than a final one) is cut off with all behind it
EllipsisAt(s, i) ==
    /\ i + 2 <= Len(s)
    /\ SubSeq(s, i, i + 2) = Dots3
    /\ \A j \in (i + 3)..Len(s) : s[j] = "\n" => j = Len(s)

CutAtEllipsis(s) ==
    IF \E i \in DOMAIN s : EllipsisAt(s, i)
    THEN LET i == CHOOSE k \in DOMAIN s :
                     EllipsisAt(s, k) /\ \A j \in 1..(k - 1) : ~EllipsisAt(s, j)
         IN SubSeq(s, 1, i - 1)
              \o (IF s[Len(s)] = "\n" /\ i + 2 < Len(s) THEN <<"\n">> ELSE <<>>)
    ELSE s

\* re.sub(r'\.{3,}$', '', s): a trailing run of three or more dots is removed
RECURSIVE DropTrailingDots(_)
DropTrailingDots(s) ==
    IF s /= <<>> /\ s[Len(s)] = "." THEN DropTrailingDots(SubSeq(s, 1, Len(s) - 1))
    ELSE s

StripTrailingEllipsis(s) == IF endswith(s, Dots3) THEN DropTrailingDots(s) ELSE s

\* str.rstrip(",")
RECURSIVE rstripComma(_)
rstripComma(s) ==
    IF s /= <<>> /\ s[Len(s)] = "," THEN rstripComma(SubSeq(s, 1, Len(s) - 1))
    ELSE s

(***************************************************************************)
(* Responses of the text backend.  kind "wrapped" is the JSON object       *)
(* {"response": text}, "other_key" is {"result": text}, "plain" is the     *)
(* bare text (not JSON), "error" is requests.post raising.  The sample     *)
(* texts hold no quote, brace or backslash, so the JSON kinds are valid    *)
(* JSON and the plain kind is not.                                         *)
(***************************************************************************)
T_Truncated == <<"t", "h", "e", " ", "s", "c", "e", "n", "e", " ", "w", "a", "s", ".", ".", ".">>
T_Complete == <<"N", "i", "g", "h", "t", " ", "f", "a", "l", "l", "s", ".">>
T_Short == <<"T", "o", "o", " ", "s", "h", "o", "r", "t">>
T_Padded == <<" ", " ", "N", "i", "g", "h", "t", " ", "f", "a", "l", "l", "s", ".", " ">>
T_Unicode == <<"a", "n", "d", " ", "t", "h", "e", "n", " ", "i", "t", "u2026">>
T_TwoDots == <<"w", "a", "i", "t", " ", "f", "o", "r", " ", "i", "t", ".", ".">>
T_Spaced == <<"t", "h", "e", " ", "s", "c", "e", "n", "e", " ", "w", "a", "s", ".", ".", ".", " ">>

Texts == {T_Truncated, T_Complete, T_Short, T_Padded, T_Unicode, T_TwoDots,
          T_Spaced}

Responses ==
    [status : {200, 500},
     kind : {"plain", "wrapped", "other_key", "unknown_key"}, text : Texts]
        \cup {[status |-> 0, kind |-> "error", text |-> <<>>]}

WrapPrefix == <<"{", "\"", "r", "e", "s", "p", "o", "n", "s", "e", "\"", ":", " ", "\"">>
OtherPrefix == <<"{", "\"", "r", "e", "s", "u", "l", "t", "\"", ":", " ", "\"">>
UnknownPrefix == <<"{", "\"", "a", "n", "s", "w", "e", "r", "\"", ":", " ", "\"">>
WrapSuffix == <<"\"", "}">>

\* str(data) of the object {"answer": text}
ReprPrefix == <<"{", "'", "a", "n", "s", "w", "e", "r", "'", ":", " ", "'">>
ReprSuffix == <<"'", "}">>

\* response.text
ResponseText(r) ==
    IF r.kind = "wrapped" THEN WrapPrefix \o r.text \o WrapSuffix
    ELSE IF r.kind = "other_key" THEN OtherPrefix \o r.text \o WrapSuffix
    ELSE IF r.kind = "unknown_key" THEN UnknownPrefix \o r.text \o WrapSuffix
    ELSE r.text

(***************************************************************************)
(* generate_response and the functions it calls.                           *)
(***************************************************************************)
\* generate_response: MAX_RETRIES
MAX_RETRIES == 3

\* generate_response: len(content.strip()) < 10
MinContentLength == 10

\* is_response_truncated.  json.loads of text that is not JSON raises
\* JSONDecodeError; the handler names json.JSONDecoder, which is no exception
\* class, so evaluating the except clause raises TypeError.
is_response_truncated_unchecked(r) ==
    IF r.kind = "plain" THEN "raise" ELSE "False"

is_response_truncated(r) ==
    IF r.kind = "plain" THEN "raise"
    ELSE LET content == IF r.kind = "wrapped" THEN r.text ELSE ResponseText(r)
         IN IF \/ endswith(content, Dots3)
               \/ endswith(content, Ellipsis)
               \/ endswith(content, Dots2)
            THEN "True" ELSE "False"

\* reassemble_chunked_response on one {"response": text} object: the chunk
\* is stripped, an ellipsis at either end is removed
ReassembledChunk(text) ==
    LET c0 == strip(text)
        c1 == IF startswith(c0, Dots3) THEN SubSeq(c0, 4, Len(c0)) ELSE c0
        c2 == IF endswith(c1, Dots3) THEN SubSeq(c1, 1, Len(c1) - 3) ELSE c1
    IN strip(<<" ">> \o strip(c2))

\* str.strip(c) for a single character c
RECURSIVE stripChar(_, _)
stripChar(s, c) ==
    IF s /= <<>> /\ Head(s) = c THEN stripChar(Tail(s), c)
    ELSE IF s /= <<>> /\ s[Len(s)] = c THEN stripChar(SubSeq(s, 1, Len(s) - 1), c)
    ELSE s

\* the clean-up applied to content taken from a parsed object
CleanContent(content) ==
    StripTrailingEllipsis(rstripComma(strip(stripChar(stripChar(content, "\""), "'"))))

\* str(data) of the parsed object {"answer": text}, after the clean-up
Stringified(r) == CleanContent(ReprPrefix \o r.text \o ReprSuffix)

\* extract_content_from_response.  v is the class variant: the class of
\* YouTube.py returns None for an object without a "response" key, the
\* class of YouTube - Generic.py tries the keys content, result, text, output.
extract_content_from_response(r, v) ==
    IF r.kind = "wrapped"
    THEN CutAtEllipsis(ReassembledChunk(r.text))
    ELSE IF r.kind = "other_key"
    THEN LET raw == ResponseText(r)
             cut == CutAtEllipsis(raw)
         IN IF cut /= raw
            THEN cut \o <<"}">>
            ELSE IF v = "api" THEN NoneValue ELSE CleanContent(r.text)
    ELSE IF r.kind = "unknown_key"
    THEN LET raw == ResponseText(r)
             cut == CutAtEllipsis(raw)
         IN IF cut /= raw
            THEN cut \o <<"}">>
            ELSE IF v = "api" THEN NoneValue ELSE Stringified(r)
    ELSE CutAtEllipsis(r.text)

Marker == <<"#", "#", "#", " ", "R", "e", "s", "p", "o", "n", "s", "e", " ", "#", "#", "#">>

MarkerAt(s, i) ==
    /\ i + Len(Marker) - 1 <= Len(s)
    /\ SubSeq(s, i, i + Len(Marker) - 1) = Marker

\* "###", one or more characters other than "#", "###"
BoundaryAt(s, i) ==
    \E j \in (i + 4)..(Len(s) - 2) :
        /\ SubSeq(s, i, i + 2) = <<"#", "#", "#">>
        /\ SubSeq(s, j, j + 2) = <<"#", "#", "#">>
        /\ \A k \in (i + 3)..(j - 1) : s[k] /= "#"

\* extract_boundary_content
extract_boundary_content(s) ==
    IF \E i \in DOMAIN s : MarkerAt(s, i)
    THEN LET last == CHOOSE i \in DOMAIN s :
                        MarkerAt(s, i) /\ \A j \in (i + 1)..Len(s) : ~MarkerAt(s, j)
             after == SubSeq(s, last + Len(Marker), Len(s))
             first == IF \E i \in DOMAIN after : BoundaryAt(after, i)
                      THEN SubSeq(after, 1,
                               (CHOOSE i \in DOMAIN after :
                                   BoundaryAt(after, i)
                                   /\ \A j \in 1..(i - 1) : ~BoundaryAt(after, j)) - 1)
                      ELSE after
         IN strip(first)
    ELSE s

Retry == <<"retry">>

\* one pass through generate_response's loop body for the response r: the
\* text it returns, or Retry when the pass ends in retry_count += 1
AttemptResult(r, v) ==
    IF r.kind = "error" \/ r.status /= 200 THEN Retry
    ELSE IF is_response_truncated(r) /= "False" THEN Retry
    ELSE LET content == extract_content_from_response(r, v) IN
         IF content = NoneValue THEN Retry
         ELSE LET bounded == extract_boundary_content(content) IN
              IF bounded = <<>> \/ Len(strip(bounded)) < MinContentLength
              THEN Retry
              ELSE strip(bounded)

(***************************************************************************)
(* The generation stages.  One stage runs at a time on the session; what   *)
(* the validators and parsers say about a returned text is an input.       *)
(***************************************************************************)
\* generate_script: MAX_RETRIES
MAX_RETRIES_script == 5

\* generate_metadata: MAX_TITLE_ATTEMPTS
MAX_TITLE_ATTEMPTS == 3

\* generate_prompts: MAX_RETRIES
MAX_RETRIES_prompts == 3

\* generate_image: MAX_RETRIES
MAX_RETRIES_image == 3

\* rounds of one stage call beyond which the model stops following it
RoundCap == 6

Stages == {"topic", "script", "metadata", "prompts", "image"}

GenInit ==
    /\ CacheInit
    /\ PubIdle
    /\ GenIdle
    /\ PipeIdle
    /\ FnIdle
    /\ AsmIdle
    /\ RtIdle
    /\ LateIdle
    /\ variant \in {"api", "generic"}

genOther == <<cacheVars, pubVars, pipeVars, fnVars, asmVars, rtVars, lateVars>>

StageReturns(val) ==
    /\ stageReturn' = val
    /\ stagePc' = "done"

\* generate_metadata: a failed description request makes the stage return None
DescriptionMissingValue == "value"

DescriptionMissing == "None"

CallStage ==
    /\ stage = "idle"
    /\ \E s \in Stages :
        /\ stage' = s
        /\ stagePc' = IF s = "metadata" THEN "title" ELSE "loop"
    /\ UNCHANGED <<retry_count, rounds, grPc, grRetry, requests, resp,
                   completion, title, stored, stageReturn, gotNone>>
    /\ UNCHANGED genOther

\* the running stage calls self.generate_response(prompt)
CallGenerateResponse ==
    /\ stage \in {"topic", "script", "metadata", "prompts"}
    /\ stagePc \in {"loop", "loop_bound", "title", "description"}
    /\ grPc = "off"
    /\ rounds < RoundCap
    /\ grPc' = "loop"
    /\ grRetry' = 0
    /\ requests' = 0
    /\ rounds' = rounds + 1
    /\ completion' = NoneValue
    /\ UNCHANGED <<stage, stagePc, retry_count, resp, title, stored,
                   stageReturn, gotNone>>
    /\ UNCHANGED genOther

\* one pass of generate_response's while loop: the request and what follows
GenerateResponseAttempt ==
    /\ grPc = "loop"
    /\ \E r \in Responses :
        LET res == AttemptResult(r, variant) IN
        /\ resp' = r
        /\ requests' = requests + 1
        /\ IF res = Retry
           THEN /\ grRetry' = grRetry + 1
                /\ completion' = NoneValue
                /\ grPc' = IF grRetry + 1 < MAX_RETRIES THEN "loop" ELSE "returned"
           ELSE /\ grRetry' = grRetry
                /\ completion' = res
                /\ grPc' = "returned"
    /\ UNCHANGED <<stage, stagePc, retry_count, rounds, title, stored,
                   stageReturn, gotNone>>
    /\ UNCHANGED genOther

\* generate_topic after generate_response returned
TopicResult ==
    /\ stage = "topic"
    /\ grPc = "returned"
    /\ grPc' = "off"
    /\ gotNone' = (completion = NoneValue)
    /\ IF completion = NoneValue
       THEN StageReturns("None") /\ UNCHANGED stored
       ELSE StageReturns("value") /\ stored' = "response"
    /\ UNCHANGED <<stage, retry_count, rounds, grRetry, requests, resp,
                   completion, title>>
    /\ UNCHANGED genOther

\* generate_script after generate_response returned; verdict is what
\* clean_script, the length test and validate_script make of the text
ScriptResult ==
    /\ stage = "script"
    /\ grPc = "returned"
    /\ grPc' = "off"
    /\ gotNone' = (completion = NoneValue)
    /\ \E verdict \in {"valid", "rejected"} :
        IF completion /= NoneValue /\ verdict = "valid"
        THEN /\ StageReturns("value")
             /\ stored' = "response"
             /\ UNCHANGED retry_count
        ELSE /\ retry_count' = retry_count + 1
             /\ UNCHANGED stored
             /\ IF retry_count + 1 < MAX_RETRIES_script
                THEN stagePc' = "loop" /\ UNCHANGED stageReturn
                ELSE StageReturns("None")
    /\ UNCHANGED <<stage, rounds, grRetry, requests, resp, completion, title>>
    /\ UNCHANGED genOther

\* generate_metadata, one title attempt; the for loop's else branch puts
\* the fixed title in place when no attempt ended in break
TitleResult ==
    /\ stage = "metadata"
    /\ stagePc = "title"
    /\ grPc = "returned"
    /\ grPc' = "off"
    /\ gotNone' = (completion = NoneValue)
    /\ \E fits \in BOOLEAN :
        IF completion /= NoneValue /\ fits
        THEN /\ title' = "response"
             /\ stagePc' = "description"
             /\ UNCHANGED retry_count
        ELSE /\ retry_count' = retry_count + 1
             /\ IF retry_count + 1 < MAX_TITLE_ATTEMPTS
                THEN stagePc' = "title" /\ UNCHANGED title
                ELSE stagePc' = "description" /\ title' = "fallback"
    /\ UNCHANGED <<stage, rounds, grRetry, requests, resp, completion,
                   stored, stageReturn>>
    /\ UNCHANGED genOther

\* generate_metadata after the description request
DescriptionResult ==
    /\ stage = "metadata"
    /\ stagePc = "description"
    /\ grPc = "returned"
    /\ grPc' = "off"
    /\ gotNone' = (completion = NoneValue)
    /\ IF completion = NoneValue
       THEN StageReturns(DescriptionMissing) /\ UNCHANGED stored
       ELSE StageReturns("value") /\ stored' = title
    /\ UNCHANGED <<stage, retry_count, rounds, grRetry, requests, resp,
                   completion, title>>
    /\ UNCHANGED genOther

\* what the prompt parsing of the class variant can make of a returned text:
\* parse_image_prompts swallows every exception, the inline parsing of
\* YouTube - Generic.py sits in a try block of generate_prompts
ParseOutcomes(v) ==
    IF v = "api" THEN {"items", "empty"} ELSE {"items", "empty", "exception"}

\* generate_prompts: retry_count after a pass of the loop that found no
\* prompts.  In YouTube - Generic.py only the except branch increments it.
AfterEmptyParse(v, parsed, n) ==
    IF v = "generic" /\ parsed = "empty" THEN n ELSE n + 1

\* generate_prompts of YouTube - Generic.py has no `image_prompts = []`
\* before the loop: the name is bound by the first pass that gets as far as
\* parsing.  "loop_bound" is the loop with the name bound (to an empty list).
LoopAfter(v, pcNow, parsed, gotText) ==
    IF v = "generic" /\ (pcNow = "loop_bound" \/ (gotText /\ parsed = "empty"))
    THEN "loop_bound" ELSE "loop"

\* generate_prompts, one pass of the while loop after generate_response
PromptsResult ==
    /\ stage = "prompts"
    /\ stagePc \in {"loop", "loop_bound"}
    /\ grPc = "returned"
    /\ grPc' = "off"
    /\ gotNone' = (completion = NoneValue)
    /\ \E parsed \in ParseOutcomes(variant) :
        IF completion /= NoneValue /\ parsed = "items"
        THEN /\ stagePc' = "post_response"
             /\ UNCHANGED retry_count
        ELSE LET next == LoopAfter(variant, stagePc, parsed, completion /= NoneValue) IN
             /\ retry_count' = IF completion = NoneValue
                               THEN retry_count + 1
                               ELSE AfterEmptyParse(variant, parsed, retry_count)
             /\ stagePc' = IF retry_count' < MAX_RETRIES_prompts
                           THEN next
                           ELSE IF variant = "generic" /\ next = "loop"
                                THEN "post_unbound" ELSE "post_fallback"
    /\ UNCHANGED <<stage, rounds, grRetry, requests, resp, completion,
                   title, stored, stageReturn>>
    /\ UNCHANGED genOther

\* generate_prompts after the loop: fallback prompts when none were parsed
\* (UnboundLocalError when the name was never bound), cleaning, padding
\* (len % len raises ZeroDivisionError on an empty list)
PromptsPost ==
    /\ stage = "prompts"
    /\ stagePc \in {"post_response", "post_fallback", "post_unbound"}
    /\ \E cleanedEmpty \in BOOLEAN :
        IF stagePc = "post_unbound" \/ (stagePc = "post_response" /\ cleanedEmpty)
        THEN StageReturns("raised") /\ UNCHANGED stored
        ELSE /\ StageReturns("value")
             /\ stored' = IF stagePc = "post_response" THEN "response" ELSE "fallback"
    /\ UNCHANGED <<stage, retry_count, rounds, grPc, grRetry, requests, resp,
                   completion, title, gotNone>>
    /\ UNCHANGED genOther

\* generate_image: validate_image_prompt rejected the prompt
ImageInvalidPrompt ==
    /\ stage = "image"
    /\ stagePc = "loop"
    /\ rounds = 0
    /\ StageReturns("None")
    /\ UNCHANGED <<stage, retry_count, rounds, grPc, grRetry, requests, resp,
                   completion, title, stored, gotNone>>
    /\ UNCHANGED genOther

\* generate_image, one pass of the download loop
ImageDownload ==
    /\ stage = "image"
    /\ stagePc = "loop"
    /\ rounds < RoundCap
    /\ rounds' = rounds + 1
    /\ \E usable \in BOOLEAN :
        IF usable
        THEN /\ StageReturns("value")
             /\ stored' = "image"
             /\ UNCHANGED retry_count
        ELSE /\ retry_count' = retry_count + 1
             /\ UNCHANGED stored
             /\ IF retry_count + 1 < MAX_RETRIES_image
                THEN UNCHANGED <<stagePc, stageReturn>>
                ELSE StageReturns("None")
    /\ UNCHANGED <<stage, grPc, grRetry, requests, resp, completion, title,
                   gotNone>>
    /\ UNCHANGED genOther

\* the stage call is over; the next stage call starts from fresh locals
StageOver ==
    /\ stagePc = "done"
    /\ stage' = "idle"
    /\ stagePc' = "idle"
    /\ retry_count' = 0
    /\ rounds' = 0
    /\ grPc' = "off"
    /\ grRetry' = 0
    /\ requests' = 0
    /\ resp' = [status |-> 0, kind |-> "none", text |-> <<>>]
    /\ completion' = NoneValue
    /\ title' = "none"
    /\ stored' = "none"
    /\ stageReturn' = "none"
    /\ gotNone' = FALSE
    /\ UNCHANGED genOther

GenNext ==
    \/ CallStage
    \/ CallGenerateResponse
    \/ GenerateResponseAttempt
    \/ TopicResult
    \/ ScriptResult
    \/ TitleResult
    \/ DescriptionResult
    \/ PromptsResult
    \/ PromptsPost
    \/ ImageInvalidPrompt
    \/ ImageDownload
    \/ StageOver

SpecGen == GenInit /\ [][GenNext]_vars

(***************************************************************************)
(* Claims about the generation stages.                                     *)
(***************************************************************************)
\* C7: every retried stage stops after its fixed number of attempts:
\* generate_response after 3 requests, generate_script after 5 rounds,
\* generate_prompts after 3 rounds, generate_image after 3 downloads.
C7_BoundedAttempts ==
    /\ requests <= MAX_RETRIES
    /\ stage = "script" => rounds <= MAX_RETRIES_script
    /\ stage = "prompts" => rounds <= MAX_RETRIES_prompts
    /\ stage = "image" => rounds <= MAX_RETRIES_image

Payload(r) ==
    IF r.kind \in {"other_key", "unknown_key"} THEN ResponseText(r) ELSE r.text

EndsInEllipsis(r) ==
    /\ r.kind /= "error"
    /\ \/ endswith(Payload(r), Dots3)
       \/ endswith(Payload(r), Ellipsis)
       \/ endswith(Payload(r), Dots2)

CompletePlainText(r) ==
    /\ r.status = 200
    /\ r.kind = "plain"
    /\ ~EndsInEllipsis(r)
    /\ r.text = strip(r.text)
    /\ Len(r.text) >= MinContentLength

\* C10: HTTP 200 with complete plain text of at least 10 characters is
\* returned by generate_response on the attempt that received it.
C10_PlainTextReturned ==
    [][(requests' = requests + 1 /\ CompletePlainText(resp'))
        => (grPc' = "returned" /\ completion' = resp'.text)]_vars

(***************************************************************************)
(* generate_video.  The session object of main.run_youtube_operations is   *)
(* built once and generate_video is called on it for every menu choice 1,  *)
(* so self.images and self.video_path carry over from call to call.  What  *)
(* each stage method returns is an input.                                  *)
(***************************************************************************)
\* generate_video calls followed on one session object
MaxGenCalls == 2

\* prompts the image loop of one call goes through
PromptCount == 2

StageOrder == <<"topic", "script", "metadata", "prompts", "images", "tts", "assembly">>

PipeInit ==
    /\ CacheInit
    /\ PubIdle
    /\ GenIdle
    /\ PipeIdle
    /\ FnIdle
    /\ AsmIdle
    /\ RtIdle
    /\ LateIdle
    /\ variant \in {"api", "generic"}

pipeOther == <<cacheVars, pubVars, genVars, fnVars, asmVars, rtVars, lateVars>>

\* return None from generate_video, stage s having failed
Abort(s) ==
    /\ failed' = s
    /\ gvReturn' = "None"
    /\ gvPc' = "returned"

\* generate_video is entered; the class of YouTube.py first verifies the
\* API access and returns None when that fails
CallGenerateVideo ==
    /\ gvPc \in {"idle", "returned"}
    /\ gvCalls < MaxGenCalls
    /\ gvCalls' = gvCalls + 1
    /\ started' = <<>>
    /\ failed' = "none"
    /\ \E access \in BOOLEAN :
        IF variant = "api" /\ ~access
        THEN gvReturn' = "None" /\ gvPc' = "returned"
        ELSE gvReturn' = "none" /\ gvPc' = "topic"
    /\ UNCHANGED <<images, video_path>>
    /\ UNCHANGED pipeOther

\* a stage whose method returns a value, returns None or raises
RunStage(s, next) ==
    /\ gvPc = s
    /\ started' = Append(started, s)
    /\ \E result \in {"value", "None", "raised"} :
        IF result = "value"
        THEN gvPc' = next /\ UNCHANGED <<failed, gvReturn>>
        ELSE Abort(s)
    /\ UNCHANGED <<images, video_path, gvCalls>>
    /\ UNCHANGED pipeOther

RunTopic == RunStage("topic", "script")

RunScript == RunStage("script", "metadata")

RunMetadata == RunStage("metadata", "prompts")

RunPrompts == RunStage("prompts", "images")

\* paths one successful generate_image call leaves on self.images: the
\* class of YouTube - Generic.py appends in generate_image and again in
\* generate_video
PathsPerImage(v) == IF v = "generic" THEN 2 ELSE 1

\* the image loop and the test "if not self.images"; n is the number of
\* prompts for which generate_image returned a path
RunImages ==
    /\ gvPc = "images"
    /\ started' = Append(started, "images")
    /\ \E n \in 0..PromptCount :
        /\ images' = images \o [i \in 1..(n * PathsPerImage(variant)) |-> gvCalls]
        /\ IF images' = <<>>
           THEN Abort("images")
           ELSE /\ gvPc' = "tts"
                /\ failed' = IF n = 0 THEN "images" ELSE failed
                /\ UNCHANGED gvReturn
    /\ UNCHANGED <<video_path, gvCalls>>
    /\ UNCHANGED pipeOther

\* generate_script_to_speech and validate_audio_file
RunTts == RunStage("tts", "assembly")

\* combine, then self.video_path is set and the path returned
RunAssembly ==
    /\ gvPc = "assembly"
    /\ started' = Append(started, "assembly")
    /\ \E result \in {"value", "None", "raised"} :
        IF result = "value"
        THEN /\ video_path' = gvCalls
             /\ gvReturn' = "path"
             /\ gvPc' = "returned"
             /\ UNCHANGED failed
        ELSE Abort("assembly") /\ UNCHANGED video_path
    /\ UNCHANGED <<images, gvCalls>>
    /\ UNCHANGED pipeOther

PipeNext ==
    \/ CallGenerateVideo
    \/ RunTopic
    \/ RunScript
    \/ RunMetadata
    \/ RunPrompts
    \/ RunImages
    \/ RunTts
    \/ RunAssembly

SpecPipeline == PipeInit /\ [][PipeNext]_vars

\* C6: the stages start in the fixed order; once a stage has failed no
\* later stage is started, generate_video returns None and the call does
\* not set video_path.
C6_AbortOnFirstFailure ==
    /\ started = SubSeq(StageOrder, 1, Len(started))
    /\ failed /= "none" =>
        /\ started[Len(started)] = failed
        /\ gvPc = "returned"
        /\ gvReturn = "None"
        /\ video_path /= gvCalls

(***************************************************************************)
(* extract_content_from_response applied to one response.                  *)
(***************************************************************************)
ExtractInit ==
    /\ CacheInit
    /\ PubIdle
    /\ GenIdle
    /\ PipeIdle
    /\ AsmIdle
    /\ RtIdle
    /\ LateIdle
    /\ variant \in {"api", "generic"}
    /\ raw_response \in {r \in Responses : r.status = 200}
    /\ extracted = Unset
    /\ candidates = <<>>
    /\ script_parts = 1
    /\ image_prompts = NotCalled
    /\ script = <<>>
    /\ relaxed_ok = "unset"
    /\ strict_ok = "unset"

fnOther == <<cacheVars, pubVars, genVars, pipeVars, asmVars, rtVars, lateVars>>

ExtractContent ==
    /\ extracted = Unset
    /\ extracted' = extract_content_from_response(raw_response, variant)
    /\ UNCHANGED <<raw_response, candidates, script_parts, image_prompts,
                   script, relaxed_ok, strict_ok>>
    /\ UNCHANGED fnOther

SpecExtract == ExtractInit /\ [][ExtractContent]_vars

\* the response is a JSON object and stays one after the ellipsis cut
ParsesToObject(r) ==
    /\ r.kind \in {"wrapped", "other_key", "unknown_key"}
    /\ CutAtEllipsis(ResponseText(r)) = ResponseText(r)

\* C11: for a response that parses to a JSON object without a recognized
\* wrapper key, extract_content_from_response returns the stringified
\* structure, not None.
C11_UnknownKeyStringified ==
    (extracted /= Unset /\ raw_response.kind = "unknown_key"
        /\ ParsesToObject(raw_response))
    => (extracted /= NoneValue /\ extracted = Stringified(raw_response))

(***************************************************************************)
(* generate_prompts after its loop: fallback, cleaning, padding, trimming, *)
(* removal of duplicates.  A prompt is a record: id names its text, short  *)
(* says the cleaned text has fewer than 20 characters, long that no        *)
(* variation suffix fits into 200 characters, var is the variation suffix  *)
(* appended to it (0 for none).                                            *)
(***************************************************************************)
\* distinct usable prompts in a candidate list
MaxDistinct == 13

\* largest len(self.script.split('.')) followed
MaxParts == 8

\* generate_prompts: len(variations)
NumVariations == 5

Raised == [how |-> "raised", list |-> <<>>]

\* generate_prompts returned the list l
ReturnedList(l) == [how |-> "returned", list |-> l]

Prompt(id) == [id |-> id, short |-> FALSE, long |-> FALSE, var |-> 0]

ShortPrompt == [id |-> 90, short |-> TRUE, long |-> FALSE, var |-> 0]

LongPrompt == [id |-> 91, short |-> FALSE, long |-> TRUE, var |-> 0]

\* the six prompts built from self.subject, repeated three times
FallbackPrompts ==
    LET six == [i \in 1..6 |-> Prompt(200 + i)] IN six \o six \o six

\* n_prompts = max(12, min(36, len(self.script.split('.')) * 2))
n_prompts(parts) ==
    LET capped == IF parts * 2 < 36 THEN parts * 2 ELSE 36
    IN IF capped > 12 THEN capped ELSE 12

\* the cleaning loop keeps a prompt unless len(prompt) < 20
Usable(q) == ~q.short

\* base_prompt + variation, or base_prompt alone when the class of
\* YouTube.py finds the result longer than 200 characters
Varied(q, k, v) ==
    IF v = "api" /\ q.long THEN q ELSE [q EXCEPT !.var = k + 1]

\* the padding loop; idx = len(image_prompts) % len(image_prompts)
RECURSIVE Pad(_, _, _)
Pad(l, n, v) ==
    IF Len(l) >= n THEN l
    ELSE LET idx == Len(l) % Len(l)
         IN Pad(Append(l, Varied(l[idx + 1], Len(l) % NumVariations, v)), n, v)

\* [x for x in image_prompts if not (x in seen or seen.add(x))]
RECURSIVE Dedupe(_)
Dedupe(l) ==
    IF l = <<>> THEN <<>>
    ELSE LET front == Dedupe(SubSeq(l, 1, Len(l) - 1))
             x == l[Len(l)]
         IN IF \E i \in DOMAIN front : front[i] = x THEN front ELSE Append(front, x)

\* generate_prompts from `if not image_prompts` to its return
FinishPrompts(c, n, v) ==
    LET source == IF c = <<>> THEN FallbackPrompts ELSE c
        cleaned == SelectSeq(source, Usable)
    IN IF Len(cleaned) < n
       THEN IF cleaned = <<>> THEN Raised
            ELSE ReturnedList(Dedupe(Pad(cleaned, n, v)))
       ELSE ReturnedList(Dedupe(SubSeq(cleaned, 1, n)))

\* candidate lists: at most one leading short, long or repeated prompt,
\* then k distinct usable prompts
Candidates ==
    { pre \o [i \in 1..k |-> Prompt(i)] :
        pre \in {<<>>, <<ShortPrompt>>, <<LongPrompt>>, <<Prompt(1)>>},
        k \in 0..MaxDistinct }

PromptsInit ==
    /\ CacheInit
    /\ PubIdle
    /\ GenIdle
    /\ PipeIdle
    /\ AsmIdle
    /\ RtIdle
    /\ LateIdle
    /\ variant \in {"api", "generic"}
    /\ raw_response = [status |-> 0, kind |-> "none", text |-> <<>>]
    /\ extracted = Unset
    /\ candidates \in Candidates
    /\ script_parts \in 1..MaxParts
    /\ image_prompts = NotCalled
    /\ script = <<>>
    /\ relaxed_ok = "unset"
    /\ strict_ok = "unset"

FinishGeneratePrompts ==
    /\ image_prompts = NotCalled
    /\ image_prompts' = FinishPrompts(candidates, n_prompts(script_parts), variant)
    /\ UNCHANGED <<raw_response, extracted, candidates, script_parts,
                   script, relaxed_ok, strict_ok>>
    /\ UNCHANGED fnOther

SpecPrompts == PromptsInit /\ [][FinishGeneratePrompts]_vars

\* C12: a list returned by generate_prompts has exactly n_prompts entries
\* and no entry twice.
C12_ExactCountNoDuplicates ==
    image_prompts.how = "returned" =>
        /\ Len(image_prompts.list) = n_prompts(script_parts)
        /\ \A i, j \in DOMAIN image_prompts.list :
               image_prompts.list[i] = image_prompts.list[j] => i = j

\* C13: generate_prompts returns a non-empty list and does not raise.
C13_NonEmptyWithoutRaising ==
    image_prompts.how /= "unset" =>
        (image_prompts.how = "returned" /\ Len(image_prompts.list) > 0)

(***************************************************************************)
(* validate_script of both classes, on scripts given as their lines        *)
(* (script.split('\n')); a line is a sequence of characters.               *)
(***************************************************************************)
UpperCase == <<"A", "B", "C", "D", "E", "F", "G", "H", "I", "J", "K", "L", "M", "N",
      "O", "P", "Q", "R", "S", "T", "U", "V", "W", "X", "Y", "Z">>

LowerCase == <<"a", "b", "c", "d", "e", "f", "g", "h", "i", "j", "k", "l", "m", "n",
      "o", "p", "q", "r", "s", "t", "u", "v", "w", "x", "y", "z">>

Digits == {"0", "1", "2", "3", "4", "5", "6", "7", "8", "9"}

\* str.lower, re.IGNORECASE
lower(c) ==
    IF \E i \in DOMAIN UpperCase : UpperCase[i] = c
    THEN LowerCase[CHOOSE i \in DOMAIN UpperCase : UpperCase[i] = c]
    ELSE c

lowerSeq(s) == [i \in DOMAIN s |-> lower(s[i])]

\* [a-zA-Z0-9]
IsAlnum(c) ==
    \/ \E i \in DOMAIN LowerCase : LowerCase[i] = c \/ UpperCase[i] = c
    \/ c \in Digits

\* \w
IsWordChar(c) == IsAlnum(c) \/ c = "_"

\* \b in front of position i of s (i = Len(s) + 1: at the end)
WordBoundary(s, i) ==
    (i > 1 /\ IsWordChar(s[i - 1])) /= (i <= Len(s) /\ IsWordChar(s[i]))

MatchesAt(s, pat, i) ==
    /\ i + Len(pat) - 1 <= Len(s)
    /\ SubSeq(s, i, i + Len(pat) - 1) = pat

\* re.search(r'\b(p1|p2|...)\b', s, re.IGNORECASE)
SearchWords(s, pats) ==
    LET ls == lowerSeq(s) IN
    \E i \in DOMAIN s : \E pat \in pats :
        /\ WordBoundary(ls, i)
        /\ MatchesAt(ls, pat, i)
        /\ WordBoundary(ls, i + Len(pat))

\* INT\.|EXT\.|FADE |CUT TO|SCENE
ScreenplayPatterns ==
    {<<"i", "n", "t", ".">>,
     <<"e", "x", "t", ".">>,
     <<"f", "a", "d", "e", " ">>,
     <<"c", "u", "t", " ", "t", "o">>,
     <<"s", "c", "e", "n", "e">>}

\* I|me|my|mine|we|us|our
PronounPatterns ==
    {<<"i">>,
     <<"m", "e">>,
     <<"m", "y">>,
     <<"m", "i", "n", "e">>,
     <<"w", "e">>,
     <<"u", "s">>,
     <<"o", "u", "r">>}

\* said|asked|replied|spoke|called|whispered|shouted
DialogueVerbs ==
    {<<"s", "a", "i", "d">>,
     <<"a", "s", "k", "e", "d">>,
     <<"r", "e", "p", "l", "i", "e", "d">>,
     <<"s", "p", "o", "k", "e">>,
     <<"c", "a", "l", "l", "e", "d">>,
     <<"w", "h", "i", "s", "p", "e", "r", "e", "d">>,
     <<"s", "h", "o", "u", "t", "e", "d">>}

\* re.search(r'(?:[:"]|(?:\b(?:said|...)\b))', sentence, re.IGNORECASE)
SearchDialogue(s) ==
    \/ \E i \in DOMAIN s : s[i] \in {":", "\""}
    \/ SearchWords(s, DialogueVerbs)

\* re.sub of an opening character, anything but the closing one, the closing
\* character: r'"[^"]*"', r"'[^']*'", r'\([^)]*\)', r'\[[^\]]*\]'
RECURSIVE RemoveDelimited(_, _, _)
RemoveDelimited(s, open, close) ==
    IF \E i \in DOMAIN s : s[i] = open /\ \E j \in (i + 1)..Len(s) : s[j] = close
    THEN LET i == CHOOSE k \in DOMAIN s :
                     /\ s[k] = open
                     /\ \E j \in (k + 1)..Len(s) : s[j] = close
                     /\ \A m \in 1..(k - 1) :
                           ~(s[m] = open /\ \E j \in (m + 1)..Len(s) : s[j] = close)
             j == CHOOSE k \in (i + 1)..Len(s) :
                     s[k] = close /\ \A m \in (i + 1)..(k - 1) : s[m] /= close
         IN SubSeq(s, 1, i - 1) \o RemoveDelimited(SubSeq(s, j + 1, Len(s)), open, close)
    ELSE s

\* the clean-up of one line in validate_script
CleanLine(line) ==
    strip(RemoveDelimited(RemoveDelimited(RemoveDelimited(RemoveDelimited(
        strip(line), "\"", "\""), "'", "'"), "(", ")"), "[", "]"))

\* len(line.split())
SplitCount(s) ==
    Cardinality({i \in DOMAIN s : ~IsSpace(s[i]) /\ (i = 1 \/ IsSpace(s[i - 1]))})

EndsSentence(s) == s /= <<>> /\ s[Len(s)] \in {".", "!", "?"}

\* the loop over lines: short fragments are skipped, a missing end mark is
\* added
RECURSIVE CollectSentences(_)
CollectSentences(lines) ==
    IF lines = <<>> THEN <<>>
    ELSE LET line == CleanLine(Head(lines))
             rest == CollectSentences(Tail(lines))
         IN IF line = <<>> \/ SplitCount(line) < 5 THEN rest
            ELSE IF EndsSentence(line) THEN <<line>> \o rest
            ELSE <<line \o <<".">>>> \o rest

\* the sentences validate_script works on
Sentences(lines) == Dedupe(CollectSentences(lines))

\* count_words: matches of [a-zA-Z0-9]+(?:[-'][a-zA-Z0-9]+)*
count_words(s) ==
    Cardinality({i \in DOMAIN s :
        /\ IsAlnum(s[i])
        /\ i = 1 \/ ~IsAlnum(s[i - 1])
        /\ ~(i >= 3 /\ s[i - 1] \in {"-", "'"} /\ IsAlnum(s[i - 2]))})

RECURSIVE SumWords(_)
SumWords(ss) == IF ss = <<>> THEN 0 ELSE count_words(Head(ss)) + SumWords(Tail(ss))

\* re.findall(r'\b\w+\b', sentence.lower())
RECURSIVE WordsOf(_)
WordsOf(s) ==
    IF ~\E i \in DOMAIN s : IsWordChar(s[i]) THEN <<>>
    ELSE LET a == CHOOSE i \in DOMAIN s :
                     IsWordChar(s[i]) /\ \A m \in 1..(i - 1) : ~IsWordChar(s[m])
             b == CHOOSE j \in a..Len(s) :
                     /\ \A m \in a..j : IsWordChar(s[m])
                     /\ j = Len(s) \/ ~IsWordChar(s[j + 1])
         IN <<lowerSeq(SubSeq(s, a, b))>> \o WordsOf(SubSeq(s, b + 1, Len(s)))

skip_words ==
    {<<"a">>,
     <<"a", "n">>,
     <<"t", "h", "e">>,
     <<"i", "n">>,
     <<"o", "n">>,
     <<"a", "t">>,
     <<"b", "y">>,
     <<"t", "o">>,
     <<"f", "o", "r">>,
     <<"w", "i", "t", "h">>,
     <<"f", "r", "o", "m">>}

get_sentence_starter(s) ==
    LET words == WordsOf(s)
        first3 == SubSeq(words, 1, IF Len(words) < 3 THEN Len(words) ELSE 3)
    IN IF words = <<>> THEN <<>>
       ELSE IF \E i \in DOMAIN first3 : first3[i] \notin skip_words
       THEN first3[CHOOSE i \in DOMAIN first3 :
                      /\ first3[i] \notin skip_words
                      /\ \A m \in 1..(i - 1) : first3[m] \in skip_words]
       ELSE words[1]

\* the three checks both validators reject on
CriticalIssue(s) ==
    \/ SearchWords(s, ScreenplayPatterns)
    \/ SearchWords(s, PronounPatterns)
    \/ SearchDialogue(s)

\* validate_script of YouTube.py
validate_script_narrow(lines) ==
    LET ss == Sentences(lines) IN
    /\ Len(ss) >= 11
    /\ Len(ss) <= 15
    /\ \A i \in DOMAIN ss : ~CriticalIssue(ss[i])

validate_script_relaxed(lines) ==
    LET ss == Sentences(lines) IN
    /\ ~(Len(ss) < 8)
    /\ ~(Len(ss) > 15)
    /\ \A i \in DOMAIN ss : ~CriticalIssue(ss[i])

\* validate_script of YouTube - Generic.py
validate_script_strict(lines) ==
    LET ss == Sentences(lines) IN
    /\ ~(Len(ss) < 10 \/ Len(ss) > 12)
    /\ ~(SumWords(ss) < 150 \/ SumWords(ss) > 250)
    /\ \A i \in DOMAIN ss :
        /\ ~(count_words(ss[i]) < 10 \/ count_words(ss[i]) > 20)
        /\ ~CriticalIssue(ss[i])
        /\ \A j \in 1..(i - 1) :
               get_sentence_starter(ss[j]) /= get_sentence_starter(ss[i])

(***************************************************************************)
(* Sample scripts: lines made of an opening and a common 15-word tail.     *)
(***************************************************************************)
\* most lines in a sample script
MaxLines == 16

Starters ==
    <<<<"D", "a", "r", "k", "n", "e", "s", "s">>,
      <<"S", "h", "a", "d", "o", "w", "s">>,
      <<"G", "l", "o", "w", "i", "n", "g">>,
      <<"G", "h", "o", "s", "t", "l", "y">>,
      <<"B", "e", "y", "o", "n", "d">>,
      <<"T", "h", "r", "o", "u", "g", "h">>,
      <<"W", "i", "t", "h", "i", "n">>,
      <<"S", "u", "d", "d", "e", "n", "l", "y">>,
      <<"T", "w", "i", "s", "t", "e", "d">>,
      <<"S", "h", "a", "t", "t", "e", "r", "e", "d">>,
      <<"D", "i", "s", "t", "a", "n", "t">>,
      <<"B", "e", "n", "e", "a", "t", "h">>,
      <<"A", "n", "c", "i", "e", "n", "t">>,
      <<"C", "r", "i", "m", "s", "o", "n">>,
      <<"M", "a", "s", "s", "i", "v", "e">>,
      <<"S", "w", "i", "r", "l", "i", "n", "g">>,
      <<"P", "u", "l", "s", "i", "n", "g">>,
      <<"H", "o", "l", "l", "o", "w">>>>

LineTail ==
    <<" ", "e", "m", "b", "e", "r", "s", " ", "d", "r", "i", "f", "t", " ",
      "s", "l", "o", "w", "l", "y", " ", "a", "c", "r", "o", "s", "s", " ",
      "t", "h", "e", " ", "s", "i", "l", "e", "n", "t", " ", "f", "r", "o",
      "z", "e", "n", " ", "v", "a", "l", "l", "e", "y", " ", "w", "h", "i",
      "l", "e", " ", "d", "i", "s", "t", "a", "n", "t", " ", "t", "h", "u",
      "n", "d", "e", "r", " ", "r", "o", "l", "l", "s", " ", "o", "v", "e",
      "r", " ", "b", "r", "o", "k", "e", "n", " ", "h", "i", "l", "l", "s",
      ".">>

GoodLine(i) == Starters[i] \o LineTail

\* other openings of a first line: screenplay markers, pronouns (bare and
\* quoted), a dialogue verb, the starter of the second line, an article,
\* and an opening that brings the line to 26 words
Openers ==
    {<<"I", "N", "T", ".", " ", "h", "o", "u", "s", "e">>,
     <<"I", "N", "T", ".", "H", "O", "U", "S", "E">>,
     <<"S", "l", "o", "w", "l", "y", " ", "F", "A", "D", "E", " ", "o", "u",
      "t">>,
     <<"Q", "u", "i", "e", "t", "l", "y", " ", "w", "e">>,
     <<"Q", "u", "i", "e", "t", "l", "y", " ", "'", "w", "e", "'">>,
     <<"S", "o", "f", "t", "l", "y", " ", "s", "h", "e", " ", "s", "a", "i",
      "d">>,
     <<"S", "h", "a", "d", "o", "w", "s", " ", "a", "n", "d">>,
     <<"T", "h", "e">>,
     <<"H", "e", "a", "v", "y", " ", "g", "r", "e", "y", " ", "m", "i", "s",
      "t", " ", "a", "n", "d", " ", "c", "o", "l", "d", " ", "r", "a", "i",
      "n", " ", "a", "n", "d", " ", "w", "i", "n", "d", " ", "a", "n", "d",
      " ", "d", "u", "s", "t", " ", "a", "n", "d">>}

ShortLine == <<"I", " ", "r", "a", "n", " ", "a", "w", "a", "y", ".">>

FirstLines ==
    {GoodLine(1), ShortLine, SubSeq(GoodLine(1), 1, Len(GoodLine(1)) - 1)}
        \cup {o \o LineTail : o \in Openers}

Scripts ==
    { <<first>> \o [i \in 1..(n - 1) |-> GoodLine(i + 1)] :
        first \in FirstLines, n \in 1..MaxLines }

\* return True / return False
Returned(b) == IF b THEN "True" ELSE "False"

ValidateInit ==
    /\ CacheInit
    /\ PubIdle
    /\ GenIdle
    /\ PipeIdle
    /\ AsmIdle
    /\ RtIdle
    /\ LateIdle
    /\ variant = "api"
    /\ raw_response = [status |-> 0, kind |-> "none", text |-> <<>>]
    /\ extracted = Unset
    /\ candidates = <<>>
    /\ script_parts = 1
    /\ image_prompts = NotCalled
    /\ script \in Scripts
    /\ relaxed_ok = "unset"
    /\ strict_ok = "unset"

ValidateRelaxed ==
    /\ relaxed_ok = "unset"
    /\ relaxed_ok' = Returned(validate_script_relaxed(script))
    /\ UNCHANGED <<raw_response, extracted, candidates, script_parts,
                   image_prompts, script, strict_ok>>
    /\ UNCHANGED fnOther

ValidateStrict ==
    /\ strict_ok = "unset"
    /\ strict_ok' = Returned(validate_script_strict(script))
    /\ UNCHANGED <<raw_response, extracted, candidates, script_parts,
                   image_prompts, script, relaxed_ok>>
    /\ UNCHANGED fnOther

ValidateNext == ValidateRelaxed \/ ValidateStrict

SpecValidate == ValidateInit /\ [][ValidateNext]_vars

\* a sentence carries a screenplay marker: INT. or EXT. at the start of a
\* word, or one of the words FADE, CUT TO, SCENE
HasScreenplayMarker(s) ==
    LET ls == lowerSeq(s) IN
    \/ \E i \in DOMAIN ls :
        /\ WordBoundary(ls, i)
        /\ \/ MatchesAt(ls, <<"i", "n", "t", ".">>, i)
           \/ MatchesAt(ls, <<"e", "x", "t", ".">>, i)
    \/ SearchWords(s, {<<"f", "a", "d", "e">>, <<"c", "u", "t", " ", "t", "o">>,
                       <<"s", "c", "e", "n", "e">>})

Conforms(ss, lo, hi) ==
    /\ Len(ss) >= lo
    /\ Len(ss) <= hi
    /\ \A i \in DOMAIN ss :
        /\ EndsSentence(ss[i])
        /\ ~HasScreenplayMarker(ss[i])
        /\ ~SearchWords(ss[i], PronounPatterns)
        /\ ~SearchWords(ss[i], DialogueVerbs)

\* C14: a script validate_script accepts has 8 to 15 sentences (relaxed) or
\* 10 to 12 (strict), every sentence ends in . ! or ?, and no sentence has
\* a first-person pronoun, a screenplay marker or a dialogue verb.
C14_AcceptedScriptsConform ==
    /\ relaxed_ok = "True" => Conforms(Sentences(script), 8, 15)
    /\ strict_ok = "True" => Conforms(Sentences(script), 10, 12)

MaxAsmCalls == 2

\* len(self.image_prompts) of each call
AsmPrompts == 3

\* the least number of valid images combine works with
MinValidImages == 3

\* the least duration of an image clip, in seconds
MinClipSeconds == 3

\* the path generate_image saved the image of a prompt under
Path(c, i) == [call |-> c, prompt |-> i]

\* sample values of tts_clip.duration, in seconds
Narrations == {0, 6, 30}

\* what os.listdir of the Songs directory can give choose_random_song
SongDirs == {"absent", "empty", "unreadable_song", "good_song"}

FracLess(a, b) == a.num * b.den < b.num * a.den

\* max(a, b) of Python: b only when it is greater
FracMax(a, b) == IF FracLess(a, b) THEN b ELSE a

FracAdd(a, b) == Frac(a.num * b.den + b.num * a.den, a.den * b.den)

\* the members of a set of numbers in increasing order
RECURSIVE Ascending(_)
Ascending(S) ==
    IF S = {} THEN <<>>
    ELSE LET m == CHOOSE x \in S : \A y \in S : x <= y
         IN <<m>> \o Ascending(S \ {m})

\* what one successful generate_image call leaves on self.images: both
\* classes append in generate_video, and the class of YouTube - Generic.py
\* has appended in generate_image already
Stored(v, path) == IF v = "generic" THEN <<path, path>> ELSE <<path>>

\* the appends of the image loop of call c, got being the prompts for
\* which generate_image returned a path
RECURSIVE NewImages(_, _, _)
NewImages(v, c, got) ==
    IF got = <<>> THEN <<>>
    ELSE Stored(v, Path(c, Head(got))) \o NewImages(v, c, Tail(got))

\* os.path.exists(img_path) and os.path.getsize(img_path) > 1000
OnDisk(path) == path \in disk

\* the test of combine on len(valid_images), with any one image passing
EnoughImagesLax(v) == Len(v) >= 1

\* the test of combine on len(valid_images)
EnoughImages(v) == Len(v) >= MinValidImages

\* the base_duration of combine for narration d and n valid images
BaseDuration(d, n) == FracMax(Frac(MinClipSeconds, 1), Frac(d, n))

\* choose_random_song: a path, or None when the directory is absent or empty
choose_random_song(dir) ==
    IF dir \in {"absent", "empty"} THEN NoneValue ELSE <<dir>>

\* os.path.exists(path) raises TypeError when path is None
ExistsRaises(path) == path = NoneValue

asmOther == <<cacheVars, pubVars, genVars, pipeVars, fnVars, rtVars, lateVars>>

AsmInit ==
    /\ CacheInit
    /\ PubIdle
    /\ GenIdle
    /\ PipeIdle
    /\ FnIdle
    /\ AsmIdle
    /\ RtIdle
    /\ LateIdle
    /\ variant \in {"api", "generic"}

\* generate_video or combine returns None after error(...)
ReturnNone(err) ==
    /\ asmError' = err
    /\ asmReturn' = "None"
    /\ asmPc' = "returned"

\* one turn of the menu loop with choice 1: rem_temp_files empties .mp,
\* then generate_video runs up to its image loop
StartCall ==
    /\ asmPc \in {"menu", "returned"}
    /\ asmCalls < MaxAsmCalls
    /\ asmCalls' = asmCalls + 1
    /\ disk' = {}
    /\ asmPc' = "images"
    /\ succeeded' = <<>>
    /\ max_duration' = 0
    /\ valid_images' = <<>>
    /\ base_duration' = Frac(0, 1)
    /\ clips' = <<>>
    /\ music' = "unset"
    /\ subtitles' = "unset"
    /\ asmError' = "none"
    /\ asmReturn' = "none"
    /\ video_written' = FALSE
    /\ combine_entered' = FALSE
    /\ UNCHANGED session_images
    /\ UNCHANGED asmOther

\* the image loop and the test "if not self.images"
ImageStage ==
    /\ asmPc = "images"
    /\ \E ok \in SUBSET (1..AsmPrompts) :
        /\ succeeded' = Ascending(ok)
        /\ session_images' =
               session_images \o NewImages(variant, asmCalls, Ascending(ok))
        /\ disk' = disk \cup {Path(asmCalls, i) : i \in ok}
    /\ IF session_images' = <<>>
       THEN ReturnNone("no_images")
       ELSE asmPc' = "tts" /\ UNCHANGED <<asmError, asmReturn>>
    /\ UNCHANGED <<asmCalls, max_duration, valid_images, base_duration, clips,
                   music, subtitles, video_written, combine_entered>>
    /\ UNCHANGED asmOther

\* generate_script_to_speech and validate_audio_file
RunSpeech ==
    /\ asmPc = "tts"
    /\ \E result \in {"value", "None"} :
        IF result = "value"
        THEN asmPc' = "combine" /\ UNCHANGED <<asmError, asmReturn>>
        ELSE ReturnNone("tts")
    /\ UNCHANGED <<asmCalls, disk, succeeded, session_images, max_duration,
                   valid_images, base_duration, clips, music, subtitles,
                   video_written, combine_entered>>
    /\ UNCHANGED asmOther

\* combine up to base_duration: the filter of self.images, the test on
\* the number of valid images, the narration file and its duration
CombineStart ==
    /\ asmPc = "combine"
    /\ combine_entered' = TRUE
    /\ valid_images' = SelectSeq(session_images, OnDisk)
    /\ IF ~EnoughImages(valid_images')
       THEN /\ ReturnNone("not_enough_images")
            /\ UNCHANGED <<max_duration, base_duration>>
       ELSE \E audio \in {"missing", "unloadable", "loaded"}, d \in Narrations :
            IF audio /= "loaded"
            THEN /\ ReturnNone("tts_" \o audio)
                 /\ UNCHANGED <<max_duration, base_duration>>
            ELSE /\ max_duration' = d
                 /\ IF d = 0
                    THEN ReturnNone("tts_short") /\ UNCHANGED base_duration
                    ELSE /\ base_duration' = BaseDuration(d, Len(valid_images'))
                         /\ asmPc' = "clips"
                         /\ UNCHANGED <<asmError, asmReturn>>
    /\ UNCHANGED <<asmCalls, disk, succeeded, session_images, clips, music,
                   subtitles, video_written>>
    /\ UNCHANGED asmOther

\* the clip loop: an image whose processing raises is skipped; skipped is
\* the number of such images
ClipLoop ==
    /\ asmPc = "clips"
    /\ \E skipped \in 0..Len(valid_images) :
        clips' = [i \in 1..(Len(valid_images) - skipped) |-> base_duration]
    /\ IF clips' = <<>>
       THEN ReturnNone("no_clips")
       ELSE asmPc' = "finish" /\ UNCHANGED <<asmError, asmReturn>>
    /\ UNCHANGED <<asmCalls, disk, succeeded, session_images, max_duration,
                   valid_images, base_duration, music, subtitles,
                   video_written, combine_entered>>
    /\ UNCHANGED asmOther

\* the rest of combine: concatenation, background music, subtitles and
\* write_videofile, inside one try whose handler returns None
FinishCombine ==
    /\ asmPc = "finish"
    /\ \E dir \in SongDirs, subs \in {"raises", "no_file", "srt"},
          write \in {"raises", "too_small", "written"} :
        IF ExistsRaises(choose_random_song(dir))
        THEN /\ music' = "raised"
             /\ ReturnNone("song_path")
             /\ UNCHANGED <<subtitles, video_written>>
        ELSE /\ music' = IF dir = "good_song" THEN "mixed" ELSE "without"
             /\ subtitles' = IF subs = "srt" THEN "burned" ELSE "without"
             /\ video_written' = (write = "written")
             /\ IF write = "written"
                THEN /\ asmReturn' = "path"
                     /\ asmPc' = "returned"
                     /\ UNCHANGED asmError
                ELSE ReturnNone("write_" \o write)
    /\ UNCHANGED <<asmCalls, disk, succeeded, session_images, max_duration,
                   valid_images, base_duration, clips, combine_entered>>
    /\ UNCHANGED asmOther

AsmNext ==
    \/ StartCall
    \/ ImageStage
    \/ RunSpeech
    \/ CombineStart
    \/ ClipLoop
    \/ FinishCombine

SpecAssembly == AsmInit /\ [][AsmNext]_vars

\* the errors that say there are no or too few images
ImageShortageErrors == {"no_images", "not_enough_images"}

WriteErrors == {"write_raises", "write_too_small"}

\* C17: a call whose background music or subtitles could not be added,
\* and whose write_videofile did not fail, still returns the video path
\* and has written the video.
C17_SubStepFailureTolerated ==
    /\ asmPc = "returned"
    /\ music \in {"without", "raised"} \/ subtitles = "without"
    /\ asmError \notin WriteErrors
    => asmReturn = "path" /\ video_written

\* the paths of the prompts of call c listed in got, one each, in order
OnePathEach(c, got) == [i \in 1..Len(got) |-> Path(c, got[i])]

\* C18: once the image loop of a call is over, self.images is the list of
\* the paths of the prompts whose generation succeeded in that call, one
\* path for each, in the order of the prompts.
C18_OnePathPerPromptInOrder ==
    asmPc \notin {"menu", "images"} =>
        session_images = OnePathEach(asmCalls, succeeded)

\* the sum of the durations of a list of clips
RECURSIVE SumDurations(_)
SumDurations(cs) ==
    IF cs = <<>> THEN Frac(0, 1) ELSE FracAdd(Head(cs), SumDurations(Tail(cs)))

\* C19: every clip built by combine lasts max(3, narration duration / number
\* of valid images) seconds, and the clips together last at least as long
\* as the narration.
C19_ClipsCoverNarration ==
    clips /= <<>> =>
        /\ \A i \in DOMAIN clips :
            clips[i] = FracMax(Frac(MinClipSeconds, 1),
                               Frac(max_duration, Len(valid_images)))
        /\ ~FracLess(SumDurations(clips), Frac(max_duration, 1))

(***************************************************************************)
(* add_account followed by get_accounts in one process, with no other      *)
(* process at the file in between.  file is the cache file of the          *)
(* provider; an absent file and an empty one read alike and are both <<>>. *)
(***************************************************************************)
KnownProviders == {"twitter", "youtube"}

Providers == KnownProviders \cup {"tiktok"}

\* what the provider's file holds before the call: nothing, no account,
\* one account, two accounts, or two documents one after the other
PriorFiles ==
    { <<>>,
      dumps(<<>>),
      dumps(InitialAccounts),
      dumps(InitialAccounts \o <<Account(5, <<Item(7, 1), Item(8, 2)>>)>>),
      dumps(InitialAccounts) \o dumps(InitialAccounts) }

\* the account records handed to add_account
NewRecords ==
    { Account(id, items) :
        id \in {SessionAccount, 2},
        items \in {<<>>, <<Item(20, 1)>>, <<Item(20, 1), Item(21, 2)>>} }

\* data.get("accounts", []) of what _atomic_read_json and
\* _atomic_update_json parse: the default for an empty or invalid text
StoredAccounts(f) == IF f = <<>> \/ ~WellFormed(f) THEN <<>> ELSE loads(f)

get_accounts(prov, f) ==
    IF prov \notin KnownProviders THEN <<>> ELSE StoredAccounts(f)

\* the file after add_account: left alone for an unknown provider,
\* otherwise truncated and rewritten with the updated document
add_account(prov, f, account) ==
    IF prov \notin KnownProviders THEN f
    ELSE dumps(add_account_update_fn(StoredAccounts(f), account))

RoundTripInit ==
    /\ file \in PriorFiles
    /\ lockHolder = 0
    /\ pc = [p \in Procs |-> "idle"]
    /\ op = [p \in Procs |-> "none"]
    /\ data = [p \in Procs |-> <<>>]
    /\ buf = [p \in Procs |-> <<>>]
    /\ arg = [p \in Procs |-> 0]
    /\ outcome = [p \in Procs |-> "none"]
    /\ PubIdle
    /\ GenIdle
    /\ PipeIdle
    /\ FnIdle
    /\ AsmIdle
    /\ LateIdle
    /\ variant = "api"
    /\ provider \in Providers
    /\ record \in NewRecords
    /\ prior = file
    /\ rtPc = "start"
    /\ listed = <<>>

AddAccountCall ==
    /\ rtPc = "start"
    /\ file' = add_account(provider, file, record)
    /\ rtPc' = "added"
    /\ UNCHANGED <<provider, record, prior, listed>>
    /\ UNCHANGED <<procVars, pubVars, genVars, pipeVars, fnVars, asmVars,
                   lateVars>>

GetAccountsCall ==
    /\ rtPc = "added"
    /\ listed' = get_accounts(provider, file)
    /\ rtPc' = "listed"
    /\ UNCHANGED <<provider, record, prior>>
    /\ UNCHANGED <<cacheVars, pubVars, genVars, pipeVars, fnVars, asmVars,
                   lateVars>>

RoundTripNext == AddAccountCall \/ GetAccountsCall

SpecRoundTrip == RoundTripInit /\ [][RoundTripNext]_vars

MaxOps == 4

\* the ids handed to add_account and remove_account
AccountIds == {SessionAccount, 2, 3}

\* the file after remove_account
remove_account(prov, f, account_id) ==
    IF prov \notin KnownProviders THEN f
    ELSE dumps(remove_account_update_fn(StoredAccounts(f), account_id))

AccountsInit ==
    /\ CacheInit
    /\ PubIdle
    /\ GenIdle
    /\ PipeIdle
    /\ FnIdle
    /\ AsmIdle
    /\ variant = "api"
    /\ provider \in KnownProviders
    /\ record = [id |-> 0, items |-> <<>>]
    /\ prior = <<>>
    /\ rtPc = "idle"
    /\ listed = <<>>
    /\ ops = 0
    /\ ContIdle
    /\ JsonIdle
    /\ LimIdle
    /\ RetryIdle
    /\ LlmIdle
    /\ UploadIdle
    /\ CleanIdle

acctOther == <<procVars, pubVars, genVars, pipeVars, fnVars, asmVars, rtVars,
               contVars, jsonVars, limVars, retryVars, llmVars, uploadVars, cleanVars>>

AddAccountOp ==
    /\ ops < MaxOps
    /\ ops' = ops + 1
    /\ \E id \in AccountIds, items \in {<<>>, <<Item(20, 1)>>} :
        file' = add_account(provider, file, Account(id, items))
    /\ UNCHANGED acctOther

RemoveAccountOp ==
    /\ ops < MaxOps
    /\ ops' = ops + 1
    /\ \E id \in AccountIds : file' = remove_account(provider, file, id)
    /\ UNCHANGED acctOther

AccountsNext == AddAccountOp \/ RemoveAccountOp

SpecAccounts == AccountsInit /\ [][AccountsNext]_vars

\* C21: no two account records of the file have the same id.
C21_UniqueIds ==
    LET accounts == StoredAccounts(file) IN
    \A i, j \in DOMAIN accounts : accounts[i].id = accounts[j].id => i = j

(***************************************************************************)
(* add_video and sync_video_history called one after the other by one      *)
(* process for the session's account.  YouTube.py defines                  *)
(* sync_video_history and an add_video that raises before it writes;       *)
(* YouTube - Generic.py defines an add_video that appends and no           *)
(* sync_video_history.                                                     *)
(***************************************************************************)
\* the record add_video is given by the n-th call: a new url, the date of
\* the upload
UploadedAt(n, date) == Item(10 + n, date)

\* the file after add_video of YouTube - Generic.py
add_video(f, item) == dumps(AppendContent(loads(f), SessionAccount, item))

\* the file after sync_video_history
sync_video_history(f, videos) == dumps(SyncMerge(loads(f), SessionAccount, videos))

\* the content records the account starts with: lists that are in upload
\* order and in the order sync_video_history leaves
StartItems == {<<>>, <<Item(0, 1)>>, <<Item(0, 1), Item(1, 1)>>}

ContentInit ==
    /\ file \in {dumps(<<Account(SessionAccount, items)>>) : items \in StartItems}
    /\ lockHolder = 0
    /\ pc = [p \in Procs |-> "idle"]
    /\ op = [p \in Procs |-> "none"]
    /\ data = [p \in Procs |-> <<>>]
    /\ buf = [p \in Procs |-> <<>>]
    /\ arg = [p \in Procs |-> 0]
    /\ outcome = [p \in Procs |-> "none"]
    /\ PubIdle
    /\ GenIdle
    /\ PipeIdle
    /\ FnIdle
    /\ AsmIdle
    /\ RtIdle
    /\ variant \in {"api", "generic"}
    /\ ops = 0
    /\ ContIdle
    /\ JsonIdle
    /\ LimIdle
    /\ RetryIdle
    /\ LlmIdle
    /\ UploadIdle
    /\ CleanIdle

contOther == <<procVars, pubVars, genVars, pipeVars, fnVars, asmVars, rtVars,
               jsonVars, limVars, retryVars, llmVars, uploadVars, cleanVars>>

AddVideoOp ==
    /\ ops < MaxOps
    /\ ops' = ops + 1
    /\ prev_items' = StoredItems(file)
    /\ last_op' = "add_video"
    /\ \E date \in {2, 3} :
        file' = IF variant = "generic"
                THEN add_video(file, UploadedAt(ops, date))
                ELSE file
    /\ UNCHANGED contOther

SyncVideoHistoryOp ==
    /\ variant = "api"
    /\ ops < MaxOps
    /\ ops' = ops + 1
    /\ prev_items' = StoredItems(file)
    /\ last_op' = "sync_video_history"
    /\ \E vs \in ChannelVideoLists : file' = sync_video_history(file, vs)
    /\ UNCHANGED contOther

ContentNext == AddVideoOp \/ SyncVideoHistoryOp

SpecContent == ContentInit /\ [][ContentNext]_vars

\* s is an initial part of t
IsPrefix(s, t) == Len(s) <= Len(t) /\ SubSeq(t, 1, Len(s)) = s

\* C22: after every call the account's content records start with the
\* records stored before the call, unchanged and in the same order; new
\* records come after them.
C22_AppendOnly ==
    last_op /= "none" => IsPrefix(prev_items, StoredItems(file))

(***************************************************************************)
(* _atomic_read_json and _atomic_update_json on a cache file that may be   *)
(* missing, empty, cut short, doubled, or not text at all.  The update     *)
(* function is that of add_account.                                        *)
(***************************************************************************)
\* a byte that the text decoding of open(file_path, "r") rejects
BadByte == [k |-> "xff", v |-> 0, d |-> 0]

\* file.read() returns: no cell of the file is an undecodable byte
Decodable(f) == \A i \in DOMAIN f : f[i] /= BadByte

\* the cache files handed to the two functions: those of PriorFiles, a
\* document cut short, and a file starting with undecodable bytes
CacheFiles ==
    PriorFiles \cup { <<LBrace, AcctCell(SessionAccount)>>,
                      <<BadByte, LBrace, RBrace>> }

Returns(accounts) == [how |-> "returned", accounts |-> accounts]

Raises == [how |-> "raised", accounts |-> <<>>]

\* _atomic_read_json(file_path, {"accounts": []}), as the accounts of the
\* value it returns; UnicodeDecodeError is not among the caught exceptions
atomic_read_json(exists, f) ==
    IF ~exists \/ f = <<>> THEN Returns(<<>>)
    ELSE IF ~Decodable(f) THEN Raises
    ELSE IF ~WellFormed(f) THEN Returns(<<>>)
    ELSE Returns(loads(f))

\* the data _atomic_update_json hands to update_fn
UpdateStart(f) ==
    IF f = <<>> THEN Returns(<<>>)
    ELSE IF ~Decodable(f) THEN Raises
    ELSE IF ~WellFormed(f) THEN Returns(<<>>)
    ELSE Returns(loads(f))

JsonInit ==
    /\ file \in CacheFiles
    /\ lockHolder = 0
    /\ pc = [p \in Procs |-> "idle"]
    /\ op = [p \in Procs |-> "none"]
    /\ data = [p \in Procs |-> <<>>]
    /\ buf = [p \in Procs |-> <<>>]
    /\ arg = [p \in Procs |-> 0]
    /\ outcome = [p \in Procs |-> "none"]
    /\ PubIdle
    /\ GenIdle
    /\ PipeIdle
    /\ FnIdle
    /\ AsmIdle
    /\ AcctIdle
    /\ ContIdle
    /\ variant = "api"
    /\ provider = "youtube"
    /\ record \in NewRecords
    /\ prior = file
    /\ rtPc = "idle"
    /\ listed = <<>>
    /\ present \in {file /= <<>>, TRUE}
    /\ read_result = NoResult
    /\ update_result = NoResult
    /\ LimIdle
    /\ RetryIdle
    /\ LlmIdle
    /\ UploadIdle
    /\ CleanIdle

jsonOther == <<procVars, pubVars, genVars, pipeVars, fnVars, asmVars, rtVars,
               acctVars, contVars, limVars, retryVars, llmVars, uploadVars, cleanVars>>

\* _atomic_read_json, before any update
AtomicReadJson ==
    /\ read_result = NoResult
    /\ update_result = NoResult
    /\ read_result' = atomic_read_json(present, file)
    /\ UNCHANGED <<file, present, update_result>>
    /\ UNCHANGED jsonOther

\* _atomic_update_json with add_account's update_fn: open(file_path, "a+")
\* creates the file; the document is rewritten unless reading raised
AtomicUpdateJson ==
    /\ update_result = NoResult
    /\ present' = TRUE
    /\ LET start == UpdateStart(file) IN
        IF start.how = "raised"
        THEN update_result' = Raises /\ UNCHANGED file
        ELSE /\ file' = dumps(add_account_update_fn(start.accounts, record))
             /\ update_result' = Returns(start.accounts)
    /\ UNCHANGED read_result
    /\ UNCHANGED jsonOther

JsonNext == AtomicReadJson \/ AtomicUpdateJson

SpecJson == JsonInit /\ [][JsonNext]_vars

\* the file is missing, empty or does not parse as one JSON document
Unusable(exists, f) == ~exists \/ f = <<>> \/ ~Decodable(f) \/ ~WellFormed(f)

\* C23: for a missing, empty or invalid cache file, reading returns the
\* default value and does not raise, and an update starts from the default
\* value: afterwards the file holds exactly what the update made of it.
C23_CorruptTreatedAsEmpty ==
    Unusable(prior /= <<>>, prior) =>
        /\ read_result /= NoResult => read_result = Returns(<<>>)
        /\ update_result /= NoResult =>
            /\ update_result = Returns(<<>>)
            /\ file = dumps(<<record>>)

(***************************************************************************)
(* RateLimiter: __call__ and wait_for_token run by threads on one object,  *)
(* with time passing between their steps.                                  *)
(***************************************************************************)
earlierVars == <<cacheVars, pubVars, genVars, pipeVars, fnVars, asmVars, rtVars>>

\* the state of everything the limiter does not touch
EarlierIdle ==
    /\ CacheInit
    /\ PubIdle
    /\ GenIdle
    /\ PipeIdle
    /\ FnIdle
    /\ AsmIdle
    /\ RtIdle
    /\ variant = "api"

\* RateLimiter(max_calls=2, period=2.0)
max_calls == 2

period == 2

\* time.sleep(min(sleep_time, 1.0))
SleepCap == 1

\* rate_limit's timeout, in seconds
WaitTimeout == 1

MaxTime == 3

MaxStarts == 4

\* [call_time for call_time in self.calls[key] if now - call_time < period]
InPeriod(times, now) == SelectSeq(times, LAMBDA c : now - c < period)

\* admitting one more call when the limit is not checked
AllowedAlways(kept) == TRUE

\* len(self.calls[key]) < self.max_calls
Allowed(kept) == Len(kept) < max_calls

\* min(self.calls[key])
Oldest(times) == CHOOSE c \in {times[i] : i \in DOMAIN times} :
                    \A i \in DOMAIN times : c <= times[i]

Min2(a, b) == IF a < b THEN a ELSE b

LimInit ==
    /\ EarlierIdle
    /\ AcctIdle
    /\ ContIdle
    /\ JsonIdle
    /\ LimIdle
    /\ RetryIdle
    /\ LlmIdle
    /\ UploadIdle
    /\ CleanIdle

limOther == <<earlierVars, acctVars, contVars, jsonVars, retryVars, llmVars, uploadVars, cleanVars>>

\* a thread enters limiter(key) or limiter.wait_for_token(key, timeout)
Begin(t, k, m) ==
    /\ tpc[t] = "idle"
    /\ starts < MaxStarts
    /\ starts' = starts + 1
    /\ tkey' = [tkey EXCEPT ![t] = k]
    /\ tmode' = [tmode EXCEPT ![t] = m]
    /\ tstart' = [tstart EXCEPT ![t] = IF m = "call" THEN 0 ELSE clock]
    /\ tresult' = [tresult EXCEPT ![t] = "none"]
    /\ tpc' = [tpc EXCEPT ![t] = "call"]
    /\ UNCHANGED <<clock, key_calls, lock, twake, admitted>>
    /\ UNCHANGED limOther

\* __call__: the whole body runs under self.lock, which must be free
Call(t) ==
    /\ tpc[t] = "call"
    /\ lock = 0
    /\ LET k == tkey[t]
           kept == InPeriod(key_calls[k], clock)
       IN IF Allowed(kept)
          THEN /\ key_calls' = [key_calls EXCEPT ![k] = Append(kept, clock)]
               /\ admitted' = [admitted EXCEPT ![k] = Append(@, clock)]
               /\ tresult' = [tresult EXCEPT ![t] = "True"]
               /\ tstart' = [tstart EXCEPT ![t] = 0]
               /\ tpc' = [tpc EXCEPT ![t] = "idle"]
          ELSE /\ key_calls' = [key_calls EXCEPT ![k] = kept]
               /\ UNCHANGED admitted
               /\ IF tmode[t] = "call"
                  THEN /\ tresult' = [tresult EXCEPT ![t] = "False"]
                       /\ tpc' = [tpc EXCEPT ![t] = "idle"]
                  ELSE /\ UNCHANGED tresult
                       /\ tpc' = [tpc EXCEPT ![t] = "timeout_check"]
               /\ UNCHANGED tstart
    /\ UNCHANGED <<clock, lock, tkey, tmode, twake, starts>>
    /\ UNCHANGED limOther

\* wait_for_token: the timeout test after a refused call
TimeoutCheck(t) ==
    /\ tpc[t] = "timeout_check"
    /\ IF tmode[t] = "wait_timeout" /\ clock - tstart[t] >= WaitTimeout
       THEN /\ tresult' = [tresult EXCEPT ![t] = "False"]
            /\ tstart' = [tstart EXCEPT ![t] = 0]
            /\ tpc' = [tpc EXCEPT ![t] = "idle"]
       ELSE /\ UNCHANGED <<tresult, tstart>>
            /\ tpc' = [tpc EXCEPT ![t] = "lock_sleep"]
    /\ UNCHANGED <<clock, key_calls, lock, tkey, tmode, twake, admitted, starts>>
    /\ UNCHANGED limOther

\* wait_for_token: "with self.lock:" is entered and time.sleep is called
\* inside it; a sleep_time that is not positive leaves the block at once
EnterSleep(t) ==
    /\ tpc[t] = "lock_sleep"
    /\ lock = 0
    /\ LET times == key_calls[tkey[t]] IN
        IF times = <<>>
        THEN /\ lock' = t
             /\ twake' = [twake EXCEPT ![t] = clock]
             /\ tpc' = [tpc EXCEPT ![t] = "sleeping"]
        ELSE LET sleep_time == period - (clock - Oldest(times)) IN
             IF sleep_time > 0
             THEN /\ lock' = t
                  /\ twake' = [twake EXCEPT ![t] =
                                    clock + Min2(sleep_time, SleepCap)]
                  /\ tpc' = [tpc EXCEPT ![t] = "sleeping"]
             ELSE /\ UNCHANGED <<lock, twake>>
                  /\ tpc' = [tpc EXCEPT ![t] = "call"]
    /\ UNCHANGED <<clock, key_calls, tkey, tmode, tstart, tresult, admitted, starts>>
    /\ UNCHANGED limOther

\* time.sleep returns, the with block ends and the loop calls self(key)
Wake(t) ==
    /\ tpc[t] = "sleeping"
    /\ clock >= twake[t]
    /\ lock' = 0
    /\ twake' = [twake EXCEPT ![t] = 0]
    /\ tpc' = [tpc EXCEPT ![t] = "call"]
    /\ UNCHANGED <<clock, key_calls, tkey, tmode, tstart, tresult, admitted, starts>>
    /\ UNCHANGED limOther

\* a second passes
Tick ==
    /\ clock < MaxTime
    /\ clock' = clock + 1
    /\ UNCHANGED <<key_calls, lock, tpc, tkey, tmode, tstart, twake, tresult,
                   admitted, starts>>
    /\ UNCHANGED limOther

LimNext ==
    \/ \E t \in Threads, k \in Keys, m \in {"call", "wait", "wait_timeout"} :
            Begin(t, k, m)
    \/ \E t \in Threads : Call(t)
    \/ \E t \in Threads : TimeoutCheck(t)
    \/ \E t \in Threads : EnterSleep(t)
    \/ \E t \in Threads : Wake(t)
    \/ Tick

SpecLimiter == LimInit /\ [][LimNext]_vars

\* the admissions of key k within the period that ends now
RecentAdmissions(k) ==
    Cardinality({i \in DOMAIN admitted[k] : clock - admitted[k][i] < period})

\* C24: for every key, at every instant, the number of calls admitted in
\* the preceding period is at most max_calls, whatever the interleaving of
\* the threads.
C24_AtMostMaxCalls == \A k \in Keys : RecentAdmissions(k) <= max_calls

\* a key is at its limit after time has passed, and a thread refused on
\* that key is waiting for a token
C24_Witness ==
    \E k \in Keys, t \in Threads :
        /\ RecentAdmissions(k) = max_calls
        /\ clock > 0
        /\ tkey[t] = k
        /\ tpc[t] \in {"timeout_check", "lock_sleep", "sleeping"}

\* C30: a thread waiting in wait_for_token for one key never keeps a call
\* for a different key from being admitted: no thread sleeps holding the
\* lock while a call for another key, which has a free token, waits for it.
C30_WaiterDoesNotBlockOtherKeys ==
    \A t \in Threads, u \in Threads :
        ~ /\ tpc[t] = "sleeping"
          /\ lock = t
          /\ tpc[u] = "call"
          /\ tkey[u] /= tkey[t]
          /\ Allowed(InPeriod(key_calls[tkey[u]], clock))

(***************************************************************************)
(* retry_on_failure: the wrapper's loop over one call.  The wrapped        *)
(* function returns, raises an exception of a listed type, or raises one   *)
(* of a type that is not listed; the exception raised by the i-th          *)
(* invocation is numbered i.                                               *)
(***************************************************************************)
MaxAttempts == 3

\* delay=1.0 and backoff=2.0, the defaults
InitialDelay == 1

Backoff == 2

Behaviours == {"returns", "listed", "unlisted"}

\* every sequence of n behaviours
BehaviourSeqs(n) == [1..n -> Behaviours]

\* giving up one attempt early
IsLastAttemptEarly(a, n) == a + 1 >= n

\* if attempt == max_attempts
IsLastAttempt(a, n) == a = n

ReturnedValue == [how |-> "returned", exc |-> 0]

RaisedExc(i) == [how |-> "raised", exc |-> i]

RetryInit ==
    /\ EarlierIdle
    /\ AcctIdle
    /\ ContIdle
    /\ JsonIdle
    /\ LimIdle
    /\ max_attempts \in 0..MaxAttempts
    /\ behaviour \in BehaviourSeqs(MaxAttempts)
    /\ attempt = 1
    /\ invocations = 0
    /\ current_delay = InitialDelay
    /\ slept = <<>>
    /\ retry_result = Running
    /\ LlmIdle
    /\ UploadIdle
    /\ CleanIdle

retryOther == <<earlierVars, acctVars, contVars, jsonVars, limVars, llmVars, uploadVars, cleanVars>>

\* one turn of "for attempt in range(1, max_attempts + 1)" in which func
\* returns
InvokeReturns ==
    /\ retry_result = Running
    /\ attempt <= max_attempts
    /\ behaviour[attempt] = "returns"
    /\ invocations' = invocations + 1
    /\ retry_result' = ReturnedValue
    /\ UNCHANGED <<max_attempts, behaviour, attempt, current_delay, slept>>
    /\ UNCHANGED retryOther

\* one turn in which func raises an exception that "except exceptions"
\* does not catch
InvokeRaisesUnlisted ==
    /\ retry_result = Running
    /\ attempt <= max_attempts
    /\ behaviour[attempt] = "unlisted"
    /\ invocations' = invocations + 1
    /\ retry_result' = RaisedExc(attempt)
    /\ UNCHANGED <<max_attempts, behaviour, attempt, current_delay, slept>>
    /\ UNCHANGED retryOther

\* one turn in which func raises a listed exception: re-raised at the last
\* attempt, else time.sleep(current_delay) and current_delay *= backoff
InvokeRaisesListed ==
    /\ retry_result = Running
    /\ attempt <= max_attempts
    /\ behaviour[attempt] = "listed"
    /\ invocations' = invocations + 1
    /\ IF IsLastAttempt(attempt, max_attempts)
       THEN /\ retry_result' = RaisedExc(attempt)
            /\ UNCHANGED <<attempt, current_delay, slept>>
       ELSE /\ slept' = Append(slept, current_delay)
            /\ current_delay' = current_delay * Backoff
            /\ attempt' = attempt + 1
            /\ UNCHANGED retry_result
    /\ UNCHANGED <<max_attempts, behaviour>>
    /\ UNCHANGED retryOther

\* the loop ends without return or raise: last_exception is raised if set
LoopExhausted ==
    /\ retry_result = Running
    /\ attempt > max_attempts
    /\ retry_result' = IF invocations > 0 THEN RaisedExc(invocations)
                       ELSE ReturnedValue
    /\ UNCHANGED <<max_attempts, behaviour, attempt, invocations,
                   current_delay, slept>>
    /\ UNCHANGED retryOther

RetryNext ==
    \/ InvokeReturns
    \/ InvokeRaisesUnlisted
    \/ InvokeRaisesListed
    \/ LoopExhausted

SpecRetry == RetryInit /\ [][RetryNext]_vars

\* C25: when wrapper has ended, the function was invoked exactly
\* max_attempts times and the exception of its last invocation was
\* re-raised if every invocation raised a listed exception; it was invoked
\* exactly once if its first invocation returned or raised an exception
\* that is not listed.  (With max_attempts = 0 there is no invocation and
\* so no exception to re-raise.)
C25_InvocationCount ==
    retry_result /= Running =>
        /\ (\A i \in 1..max_attempts : behaviour[i] = "listed") =>
              /\ invocations = max_attempts
              /\ max_attempts >= 1 => retry_result = RaisedExc(max_attempts)
        /\ (invocations >= 1 /\ behaviour[1] /= "listed") => invocations = 1

\* a call that used up three attempts, sleeping 1 s then 2 s
C25_Witness ==
    /\ retry_result = RaisedExc(3)
    /\ max_attempts = 3
    /\ invocations = 3
    /\ slept = <<InitialDelay, InitialDelay * Backoff>>

(***************************************************************************)
(* LLMCache: set, get, delete, clear and clear_expired on one cache        *)
(* directory while time passes.  A cache key stands for one combination of *)
(* prompt, model and parameters.                                           *)
(***************************************************************************)
MaxLlmTime == 3

CachedResponses == {1, 2}

SomeTime(t) == [some |-> TRUE, at |-> t]

\* the ttl arguments of set and the default_ttl arguments of LLMCache
Ttls == {NoTime, SomeTime(1), SomeTime(2)}

\* ttl_to_use = ttl if ttl is not None else self.default_ttl
TtlToUse(ttl, default) == IF ttl.some THEN ttl ELSE default

\* expires_at as set computes it
ExpiresAt(ttl, default, now) ==
    LET use == TtlToUse(ttl, default) IN
    IF use.some THEN SomeTime(now + use.at) ELSE NoTime

\* get's and clear_expired's test: datetime.now() > expires_at
Expired(e, now) == e.expires_at.some /\ now > e.expires_at.at

LlmInit ==
    /\ EarlierIdle
    /\ AcctIdle
    /\ ContIdle
    /\ JsonIdle
    /\ LimIdle
    /\ RetryIdle
    /\ llm_now = 0
    /\ default_ttl \in Ttls
    /\ entries = [k \in CacheKeys |-> NoEntry]
    /\ pinned = [k \in CacheKeys |-> NotPinned]
    /\ last_get = NoGet
    /\ UploadIdle
    /\ CleanIdle

llmOther == <<earlierVars, acctVars, contVars, jsonVars, limVars, retryVars, uploadVars, cleanVars>>

\* LLMCache.set(prompt, response, model, ttl, **kwargs)
LlmSet(k, r, ttl) ==
    /\ entries' = [entries EXCEPT ![k] =
            [present |-> TRUE, response |-> r,
             expires_at |-> ExpiresAt(ttl, default_ttl, llm_now)]]
    /\ pinned' = [pinned EXCEPT ![k] =
            IF ttl.some THEN NotPinned ELSE [on |-> TRUE, response |-> r]]
    /\ UNCHANGED <<llm_now, default_ttl, last_get>>
    /\ UNCHANGED llmOther

\* LLMCache.get(prompt, model, **kwargs): a miss, an expired entry that is
\* unlinked, or a hit
LlmGet(k) ==
    /\ LET e == entries[k] IN
        IF ~e.present
        THEN /\ last_get' = [made |-> TRUE, key |-> k, hit |-> FALSE,
                             response |-> 0, pinned |-> pinned[k]]
             /\ UNCHANGED entries
        ELSE IF Expired(e, llm_now)
        THEN /\ last_get' = [made |-> TRUE, key |-> k, hit |-> FALSE,
                             response |-> 0, pinned |-> pinned[k]]
             /\ entries' = [entries EXCEPT ![k] = NoEntry]
        ELSE /\ last_get' = [made |-> TRUE, key |-> k, hit |-> TRUE,
                             response |-> e.response, pinned |-> pinned[k]]
             /\ UNCHANGED entries
    /\ UNCHANGED <<llm_now, default_ttl, pinned>>
    /\ UNCHANGED llmOther

\* LLMCache.delete(prompt, model, **kwargs)
LlmDelete(k) ==
    /\ entries[k].present
    /\ entries' = [entries EXCEPT ![k] = NoEntry]
    /\ pinned' = [pinned EXCEPT ![k] = NotPinned]
    /\ UNCHANGED <<llm_now, default_ttl, last_get>>
    /\ UNCHANGED llmOther

\* LLMCache.clear()
LlmClear ==
    /\ \E k \in CacheKeys : entries[k].present
    /\ entries' = [k \in CacheKeys |-> NoEntry]
    /\ pinned' = [k \in CacheKeys |-> NotPinned]
    /\ UNCHANGED <<llm_now, default_ttl, last_get>>
    /\ UNCHANGED llmOther

\* LLMCache.clear_expired()
LlmClearExpired ==
    /\ \E k \in CacheKeys : entries[k].present /\ Expired(entries[k], llm_now)
    /\ entries' = [k \in CacheKeys |->
            IF entries[k].present /\ Expired(entries[k], llm_now)
            THEN NoEntry ELSE entries[k]]
    /\ UNCHANGED <<llm_now, default_ttl, pinned, last_get>>
    /\ UNCHANGED llmOther

\* a second passes
LlmTick ==
    /\ llm_now < MaxLlmTime
    /\ llm_now' = llm_now + 1
    /\ UNCHANGED <<default_ttl, entries, pinned, last_get>>
    /\ UNCHANGED llmOther

LlmNext ==
    \/ \E k \in CacheKeys, r \in CachedResponses, ttl \in Ttls : LlmSet(k, r, ttl)
    \/ \E k \in CacheKeys : LlmGet(k)
    \/ \E k \in CacheKeys : LlmDelete(k)
    \/ LlmClear
    \/ LlmClearExpired
    \/ LlmTick

SpecLlm == LlmInit /\ [][LlmNext]_vars

\* C26: a get for a key whose entry was stored with ttl=None, and neither
\* deleted nor cleared (nor stored again) since, returns the stored
\* response, however much time has passed.
C26_TtlNoneNeverExpires ==
    (last_get.made /\ last_get.pinned.on) =>
        /\ last_get.hit
        /\ last_get.response = last_get.pinned.response

(***************************************************************************)
(* YouTube._resumable_upload: the loop around insert_request.next_chunk(). *)
(* The method assigns to a local variable named error, so inside it the    *)
(* name error is that variable (None or a message), not status.error.      *)
(***************************************************************************)
\* the class attribute MAX_RETRIES
UPLOAD_MAX_RETRIES == 10

MaxChunks == 12

UploadReturns(v) == [how |-> "returned", value |-> v]

UploadRaises(e) == [how |-> "raised", value |-> e]

\* "error(...)": calling the local variable, which is None or a str
CallError == UploadRaises("TypeError")

\* 2 ** retry
RECURSIVE Pow2(_)
Pow2(n) == IF n = 0 THEN 1 ELSE 2 * Pow2(n - 1)

UploadInit ==
    /\ EarlierIdle
    /\ AcctIdle
    /\ ContIdle
    /\ JsonIdle
    /\ LimIdle
    /\ RetryIdle
    /\ LlmIdle
    /\ upload_error = "None"
    /\ upload_retry = 0
    /\ chunks = 0
    /\ last_chunk = "none"
    /\ max_sleeps = <<>>
    /\ upload_result = Uploading
    /\ CleanIdle

uploadOther == <<earlierVars, acctVars, contVars, jsonVars, limVars, retryVars,
                 llmVars, cleanVars>>

\* the statements after the try block: "if error is not None:" with the
\* value err of the local variable
AfterTry(err) ==
    IF err = "None"
    THEN /\ UNCHANGED <<upload_retry, max_sleeps, upload_result>>
    ELSE /\ upload_retry' = upload_retry + 1
         /\ IF upload_retry + 1 > UPLOAD_MAX_RETRIES
            THEN /\ upload_result' = CallError
                 /\ UNCHANGED max_sleeps
            ELSE /\ max_sleeps' = Append(max_sleeps, Pow2(upload_retry + 1))
                 /\ UNCHANGED upload_result

\* next_chunk() returns (status, None): the upload is not finished
ChunkProgress ==
    /\ upload_result = Uploading
    /\ chunks < MaxChunks
    /\ chunks' = chunks + 1
    /\ last_chunk' = "progress"
    /\ UNCHANGED upload_error
    /\ AfterTry(upload_error)
    /\ UNCHANGED uploadOther

\* next_chunk() returns a response with an id
ChunkDoneWithId ==
    /\ upload_result = Uploading
    /\ chunks < MaxChunks
    /\ chunks' = chunks + 1
    /\ last_chunk' = "id"
    /\ upload_result' = UploadReturns("id")
    /\ UNCHANGED <<upload_error, upload_retry, max_sleeps>>
    /\ UNCHANGED uploadOther

\* next_chunk() returns a response without an id: error("Upload failed
\* with unexpected response") is evaluated
ChunkDoneNoId ==
    /\ upload_result = Uploading
    /\ chunks < MaxChunks
    /\ chunks' = chunks + 1
    /\ last_chunk' = "no_id"
    /\ upload_result' = CallError
    /\ UNCHANGED <<upload_error, upload_retry, max_sleeps>>
    /\ UNCHANGED uploadOther

\* next_chunk() raises HttpError with a status in RETRIABLE_STATUS_CODES,
\* or one of RETRIABLE_EXCEPTIONS
ChunkRetriable ==
    /\ upload_result = Uploading
    /\ chunks < MaxChunks
    /\ chunks' = chunks + 1
    /\ last_chunk' = "retriable"
    /\ upload_error' = "message"
    /\ AfterTry("message")
    /\ UNCHANGED uploadOther

\* next_chunk() raises HttpError with another status: re-raised
ChunkHttpError ==
    /\ upload_result = Uploading
    /\ chunks < MaxChunks
    /\ chunks' = chunks + 1
    /\ last_chunk' = "http_error"
    /\ upload_result' = UploadRaises("HttpError")
    /\ UNCHANGED <<upload_error, upload_retry, max_sleeps>>
    /\ UNCHANGED uploadOther

UploadNext ==
    \/ ChunkProgress
    \/ ChunkDoneWithId
    \/ ChunkDoneNoId
    \/ ChunkRetriable
    \/ ChunkHttpError

SpecUpload == UploadInit /\ [][UploadNext]_vars

\* C27: _resumable_upload returns the video id when the upload succeeds,
\* and returns None, raising nothing, when the response has no id or when
\* more than MAX_RETRIES retriable errors have occurred.
C27_UploadOutcome ==
    /\ last_chunk = "id" => upload_result = UploadReturns("id")
    /\ last_chunk = "no_id" => upload_result = UploadReturns("None")
    /\ upload_retry > UPLOAD_MAX_RETRIES => upload_result = UploadReturns("None")

(***************************************************************************)
(* clean_script, and the part of generate_script that cleans a completion, *)
(* validates the cleaned text and stores it.  Texts are given as their     *)
(* lines; the JSON unwrapping, which both functions do alike, is left to   *)
(* extract_content_from_response above.                                    *)
(***************************************************************************)
Hashes == <<"#", "#", "#">>

\* the end of \s* started at position i
SkipSpaces(s, i) ==
    CHOOSE j \in i..(Len(s) + 1) :
        /\ j = Len(s) + 1 \/ ~IsSpace(s[j])
        /\ \A m \in i..(j - 1) : IsSpace(s[m])

\* the position after a match of ###\s*Response\s*###\s* (re.I) at i, or 0
MarkerEnd(s, i) ==
    LET ls == lowerSeq(s)
        j == SkipSpaces(s, i + 3)
        k == SkipSpaces(s, j + 8)
    IN IF /\ MatchesAt(s, Hashes, i)
          /\ MatchesAt(ls, <<"r", "e", "s", "p", "o", "n", "s", "e">>, j)
          /\ MatchesAt(s, Hashes, k)
       THEN SkipSpaces(s, k + 3)
       ELSE 0

\* re.sub(r'^.*?###\s*Response\s*###\s*', '', line, flags=re.I)
RemoveResponseMarker(s) ==
    IF \E i \in DOMAIN s : MarkerEnd(s, i) > 0
    THEN LET i == CHOOSE k \in DOMAIN s :
                    /\ MarkerEnd(s, k) > 0
                    /\ \A m \in 1..(k - 1) : MarkerEnd(s, m) = 0
         IN SubSeq(s, MarkerEnd(s, i), Len(s))
    ELSE s

\* re.sub(r'###.*?$', '', line)
RemoveHashTail(s) ==
    IF \E i \in DOMAIN s : MatchesAt(s, Hashes, i)
    THEN LET i == CHOOSE k \in DOMAIN s :
                    /\ MatchesAt(s, Hashes, k)
                    /\ \A m \in 1..(k - 1) : ~MatchesAt(s, Hashes, m)
         IN SubSeq(s, 1, i - 1)
    ELSE s

\* re.sub(r'\s+', ' ', line)
CollapseSpaces(s) ==
    LET marked == [i \in DOMAIN s |->
                      IF ~IsSpace(s[i]) THEN s[i]
                      ELSE IF i > 1 /\ IsSpace(s[i - 1]) THEN "drop"
                      ELSE " "]
    IN SelectSeq(marked, LAMBDA c : c /= "drop")

\* the clean-up of one line in clean_script
CleanScriptLine(line) ==
    strip(CollapseSpaces(RemoveHashTail(RemoveResponseMarker(strip(line)))))

\* clean_script's loop over lines
RECURSIVE CollectCleaned(_)
CollectCleaned(lines) ==
    IF lines = <<>> THEN <<>>
    ELSE LET rest == CollectCleaned(Tail(lines)) IN
         IF strip(Head(lines)) = <<>> THEN rest
         ELSE LET line == CleanScriptLine(Head(lines)) IN
              IF SplitCount(line) < 5 THEN rest
              ELSE IF EndsSentence(line) THEN <<line>> \o rest
              ELSE <<line \o <<".">>>> \o rest

\* clean_script: the sentences it joins with '\n'
clean_script(lines) == Dedupe(CollectCleaned(lines))

\* len('\n'.join(lines))
RECURSIVE JoinedLen(_)
JoinedLen(lines) ==
    IF lines = <<>> THEN 0
    ELSE IF Len(lines) = 1 THEN Len(lines[1])
    ELSE Len(Head(lines)) + 1 + JoinedLen(Tail(lines))

SomeLines(l) == [set |-> TRUE, lines |-> l]

\* first lines with a response marker, a trailing marker, and runs of
\* spaces, besides those of the sample scripts
MarkedFirstLines ==
    { Hashes \o <<" ", "R", "e", "s", "p", "o", "n", "s", "e", " ">> \o Hashes
          \o <<" ">> \o GoodLine(1),
      GoodLine(1) \o <<" ">> \o Hashes \o <<" ", "e", "n", "d">>,
      <<"D", "a", "r", "k", " ", " ", "a", "n", "d", "\t">> \o LineTail,
      <<"(", "s", "o", "f", "t", "l", "y", ")", " ", "W", "i", "n", "d">>
          \o LineTail }

\* the completions: a first line and 0, 7 or 8 good lines after it
Completions ==
    { <<first>> \o [i \in 1..n |-> GoodLine(i + 1)] :
        first \in FirstLines \cup MarkedFirstLines, n \in {0, 7, 8} }

CleanInit ==
    /\ EarlierIdle
    /\ AcctIdle
    /\ ContIdle
    /\ JsonIdle
    /\ LimIdle
    /\ RetryIdle
    /\ LlmIdle
    /\ UploadIdle
    /\ raw_lines \in Completions
    /\ cleaned_script = NoLines
    /\ checked = NoLines
    /\ self_script = NoLines

cleanOther == <<earlierVars, acctVars, contVars, jsonVars, limVars, retryVars,
                llmVars, uploadVars>>

\* script = self.clean_script(completion)
CleanScriptStep ==
    /\ ~cleaned_script.set
    /\ cleaned_script' = SomeLines(clean_script(raw_lines))
    /\ UNCHANGED <<raw_lines, checked, self_script>>
    /\ UNCHANGED cleanOther

\* the length test, then validate_script(script) on the cleaned text and
\* self.script = script when it returns True
ValidateCleanedStep ==
    /\ cleaned_script.set
    /\ ~checked.set
    /\ ~(cleaned_script.lines = <<>> \/ JoinedLen(cleaned_script.lines) < 100)
    /\ checked' = SomeLines(Sentences(cleaned_script.lines))
    /\ self_script' = IF validate_script_relaxed(cleaned_script.lines)
                 THEN SomeLines(cleaned_script.lines) ELSE NoLines
    /\ UNCHANGED <<raw_lines, cleaned_script>>
    /\ UNCHANGED cleanOther

CleanNext == CleanScriptStep \/ ValidateCleanedStep

SpecClean == CleanInit /\ [][CleanNext]_vars

\* C28: the script stored in self.script consists of exactly the sentences
\* that validate_script built and checked: the sentence list of
\* clean_script equals the one of the validator's own clean-up.
C28_StoredIsWhatWasChecked ==
    self_script.set => self_script.lines = checked.lines

\* C29: when a generate_video call returns, self.images holds only paths
\* of images generated during that call, none recorded by an earlier call
\* on the same YouTube object.
C29_ImagesOfThisCallOnly ==
    asmPc = "returned" =>
        \A i \in DOMAIN session_images : session_images[i].call = asmCalls

====
